---- MODULE Spec2Model ----
(***************************************************************************)
(* A model of rust-skeptic's template composer (compose_template) and of   *)
(* its markdown block extractor (extract_tests_from_string).               *)
(*                                                                         *)
(* Strings are sequences of one-character strings.  Indices into a         *)
(* template are 0-based as in the source; the character at index i of a    *)
(* template t is t[i + 1].                                                 *)
(***************************************************************************)
EXTENDS Integers, Sequences, FiniteSets, TLC

VARIABLES
    template,           \* compose_template: Option<String> argument
    test,               \* compose_template: the body argument
    pc,                 \* position in compose_template
    idx,                \* index of the scan loop, then of the render loop
    state,              \* the scanner's State
    open_brace_runs,    \* Vec<Vec<usize>> recorded by the scan
    close_brace_runs,   \* Vec<Vec<usize>> recorded by the scan
    replacement,        \* Option<(usize, usize)>
    open_brace_pairs,   \* VecDeque<(usize, usize)>
    close_brace_pairs,  \* VecDeque<(usize, usize)>
    template_chars,     \* VecDeque<char> consumed by the render loop
    src,                \* the composed String
    err,                \* which panic ended the call, "" when none
    file_stem,          \* extract_tests_from_string: the file_stem argument
    pstate,             \* cmark parser: the block it is inside of
    pinfo,              \* cmark parser: info string of the open code block
    nevents,            \* cmark parser: events delivered so far
    line_number,        \* newlines before the parser's offset at the loop top
    epc,                \* position in extract_tests_from_string
    buffer,             \* the Buffer register
    section,            \* Option<String>: the current section
    code_block_start,   \* line recorded at a block's first text
    old_template,       \* Option<String>: the legacy template
    tests,              \* Vec<Test>
    call_arg,           \* the &str argument of a call of a string function
    call_ret,           \* Option: what the call returned
    call_again,         \* Option: what the function returned for call_ret
    templates,          \* HashMap<String, String>: the named templates
    code_buffer,        \* load_templates: Option<Vec<String>>
    skt_exists,         \* load_templates: path.exists() of the companion file
    lpc,                \* position in load_templates
    building,           \* build_test_src: index of its Test in tests, 0 before
    suite,              \* DocTestSuite.doc_tests: the tests of each document
    sb,                 \* build_supercrate_src: the branches of the switch
    deps,               \* the dependencies table of the master manifest
    members,            \* emit.rs: the workspace members of the master manifest
    spc,                \* position in emit_supercrate_project
    file,               \* the file write_if_contents_changed is called for
    wlog                \* the calls of write_if_contents_changed so far

cvars == <<template, test, pc, idx, state, open_brace_runs, close_brace_runs,
           replacement, open_brace_pairs, close_brace_pairs, template_chars,
           src, err>>

evars == <<file_stem, pstate, pinfo, nevents, line_number, epc, buffer, section,
           code_block_start, old_template, tests>>

fvars == <<call_arg, call_ret, call_again>>

dvars == <<templates, code_buffer, skt_exists, lpc, building>>

gvars == <<suite, sb, deps, members, spc, file, wlog>>

vars == <<cvars, evars, fvars, dvars, gvars>>

----------------------------------------------------------------------------
(* Bounds and input sets *)

MaxLen == 5

Alphabet == {"{", "}", " ", "x"}

ExampleTemplates ==
    { <<"w","r","a","p","(","{","}",")"," ","e","n","d">>,
      <<"{","{"," ","{","}"," ","}","}">>,
      <<"{","}"," ","a","n","d"," ","{","}">>,
      <<"n","o"," ","m","a","r","k","e","r","s"," ","h","e","r","e">>,
      <<"{","{","{","}","}","}"," ">>,
      <<"{","{","{","\n","}","}","}","}","}","x">>,
      <<"a","{","\n","\t"," ","}","b">>,
      <<"{","{","}","}","{","}","{","{","{","{","x">>,
      <<"}","}","}","x","{"," ","}","}","}","}","}","x">> }

Templates == UNION { [1..k -> Alphabet] : k \in 0..MaxLen } \cup ExampleTemplates

Bodies == { <<>>, <<"X">>, <<"{","X","}","}">> }

----------------------------------------------------------------------------
(* Option values *)

None == [some |-> FALSE]
Some(v) == [some |-> TRUE, val |-> v]

(* Scanner states *)

Nothin == [tag |-> "Nothin"]
OpenBraceRun(braces) == [tag |-> "OpenBraceRun", braces |-> braces]
Opener(open_idx) == [tag |-> "Opener", open_idx |-> open_idx]
CloseBraceRun(braces) == [tag |-> "CloseBraceRun", braces |-> braces]
CloseBraceRunWithOpener(open_idx, braces) ==
    [tag |-> "CloseBraceRunWithOpener", open_idx |-> open_idx, braces |-> braces]

is_odd(n) == ~(n % 2 = 0)

IsWhitespace(ch) == ch \in {" ", "\n", "\t"}

\* Vec::pop: the vector without its last element
PopLast(v) == SubSeq(v, 1, Len(v) - 1)

Last_First(v) == v[1]

\* Vec::pop: the element it returns
Last(v) == v[Len(v)]

First_Last(q) == q[Len(q)]

\* VecDeque::pop_front: the element it returns
First(q) == q[1]

\* VecDeque::pop_front: the queue without its first element
PopFront(q) == SubSeq(q, 2, Len(q))

\* open_brace_runs.push(run) guarded by !run.is_empty()
PushIfNonEmpty(runs, run) == IF run = <<>> THEN runs ELSE Append(runs, run)

\* the character the scan loop is looking at
ScanCh == template.val[idx + 1]

----------------------------------------------------------------------------
(* compose_template: entry *)

NoTemplateResult_Empty(body) == <<>>

\* the else arm: the body is returned as it is
NoTemplateResult(body) == body

ComposeNone ==
    /\ pc = "call"
    /\ ~template.some
    /\ src' = NoTemplateResult(test)
    /\ pc' = "done"
    /\ UNCHANGED <<template, test, idx, state, open_brace_runs, close_brace_runs,
                   replacement, open_brace_pairs, close_brace_pairs,
                   template_chars, err>>
    /\ UNCHANGED <<evars, fvars, dvars, gvars>>

ComposeSome ==
    /\ pc = "call"
    /\ template.some
    /\ pc' = "scan"
    /\ UNCHANGED <<template, test, idx, state, open_brace_runs, close_brace_runs,
                   replacement, open_brace_pairs, close_brace_pairs,
                   template_chars, src, err>>
    /\ UNCHANGED <<evars, fvars, dvars, gvars>>

----------------------------------------------------------------------------
(* compose_template: the scan, one action per State arm *)

Scanning == pc = "scan" /\ idx < Len(template.val)

ScanFrame == UNCHANGED <<template, test, open_brace_pairs, close_brace_pairs,
                         template_chars, src, evars, fvars, dvars, gvars>>

ScanNothin ==
    /\ Scanning
    /\ state.tag = "Nothin"
    /\ state' = CASE ScanCh = "{" -> OpenBraceRun(<<idx>>)
                  [] ScanCh = "}" -> CloseBraceRun(<<idx>>)
                  [] OTHER -> Nothin
    /\ idx' = idx + 1
    /\ UNCHANGED <<pc, err, open_brace_runs, close_brace_runs, replacement>>
    /\ ScanFrame

ScanOpenBraceRun ==
    /\ Scanning
    /\ state.tag = "OpenBraceRun"
    /\ LET open_braces == state.braces IN
       CASE ScanCh = "{" ->
              /\ state' = OpenBraceRun(Append(open_braces, idx))
              /\ UNCHANGED open_brace_runs
         [] ScanCh = "}" ->
              IF is_odd(Len(open_braces))
              THEN /\ open_brace_runs' = PushIfNonEmpty(open_brace_runs, PopLast(open_braces))
                   /\ state' = CloseBraceRunWithOpener(Last(open_braces), <<idx>>)
              ELSE /\ open_brace_runs' = Append(open_brace_runs, open_braces)
                   /\ state' = CloseBraceRun(<<idx>>)
         [] OTHER ->
              IF IsWhitespace(ScanCh) /\ is_odd(Len(open_braces))
              THEN /\ open_brace_runs' = PushIfNonEmpty(open_brace_runs, PopLast(open_braces))
                   /\ state' = Opener(Last(open_braces))
              ELSE /\ open_brace_runs' = Append(open_brace_runs, open_braces)
                   /\ state' = Nothin
    /\ idx' = idx + 1
    /\ UNCHANGED <<pc, err, close_brace_runs, replacement>>
    /\ ScanFrame

OpenerStep_Keep(ch, open_idx, i) ==
    IF ch = "}" THEN CloseBraceRunWithOpener(open_idx, <<i>>) ELSE Opener(open_idx)

\* the State after State::Opener(open_idx) has read a character other than
\* an open brace at index i
OpenerStep(ch, open_idx, i) ==
    CASE ch = "}" -> CloseBraceRunWithOpener(open_idx, <<i>>)
      [] IsWhitespace(ch) -> Opener(open_idx)
      [] OTHER -> Nothin

ScanOpener ==
    /\ Scanning
    /\ state.tag = "Opener"
    /\ IF ScanCh = "{"
       THEN /\ pc' = "panic"
            /\ err' = "unreachable"
            /\ UNCHANGED <<state, idx>>
       ELSE /\ state' = OpenerStep(ScanCh, state.open_idx, idx)
            /\ idx' = idx + 1
            /\ UNCHANGED <<pc, err>>
    /\ UNCHANGED <<open_brace_runs, close_brace_runs, replacement>>
    /\ ScanFrame

ScanCloseBraceRun ==
    /\ Scanning
    /\ state.tag = "CloseBraceRun"
    /\ LET close_braces == state.braces IN
       CASE ScanCh = "{" ->
              /\ close_brace_runs' = Append(close_brace_runs, close_braces)
              /\ state' = OpenBraceRun(<<idx>>)
         [] ScanCh = "}" ->
              /\ state' = CloseBraceRun(Append(close_braces, idx))
              /\ UNCHANGED close_brace_runs
         [] OTHER ->
              /\ close_brace_runs' = Append(close_brace_runs, close_braces)
              /\ state' = Nothin
    /\ idx' = idx + 1
    /\ UNCHANGED <<pc, err, open_brace_runs, replacement>>
    /\ ScanFrame

\* the state a CloseBraceRunWithOpener run is left for when it ends
AfterCloseRun == IF ScanCh = "{" THEN OpenBraceRun(<<idx>>) ELSE Nothin

ScanCloseBraceRunWithOpener ==
    /\ Scanning
    /\ state.tag = "CloseBraceRunWithOpener"
    /\ LET close_braces == state.braces IN
       IF ScanCh = "}"
       THEN /\ state' = CloseBraceRunWithOpener(state.open_idx, Append(close_braces, idx))
            /\ idx' = idx + 1
            /\ UNCHANGED <<pc, err, close_brace_runs, replacement>>
       ELSE IF is_odd(Len(close_braces))
            THEN IF replacement.some
                 THEN /\ pc' = "panic"
                      /\ err' = "multiple {} in skeptic template"
                      /\ UNCHANGED <<state, idx, close_brace_runs, replacement>>
                 ELSE /\ replacement' = Some(<<state.open_idx, First(close_braces)>>)
                      /\ close_brace_runs' = PushIfNonEmpty(close_brace_runs, PopFront(close_braces))
                      /\ state' = AfterCloseRun
                      /\ idx' = idx + 1
                      /\ UNCHANGED <<pc, err>>
            ELSE /\ close_brace_runs' = Append(close_brace_runs, close_braces)
                 /\ state' = AfterCloseRun
                 /\ idx' = idx + 1
                 /\ UNCHANGED <<pc, err, replacement>>
    /\ UNCHANGED open_brace_runs
    /\ ScanFrame

----------------------------------------------------------------------------
(* compose_template: after the scan *)

DropOdd_PopFront(run) == IF is_odd(Len(run)) THEN PopFront(run) ELSE run

DropOdd_Keep(run) == run

\* run.pop() on the runs of odd length
DropOdd(run) == IF is_odd(Len(run)) THEN PopLast(run) ELSE run

RECURSIVE Flatten(_)
Flatten(runs) == IF runs = <<>> THEN <<>> ELSE DropOdd(Head(runs)) \o Flatten(Tail(runs))

\* the pairing loop; ok is FALSE when the second pop_front().unwrap() fails
RECURSIVE MakePairs(_)
MakePairs(q) ==
    IF q = <<>> THEN [ok |-> TRUE, pairs |-> <<>>]
    ELSE IF Len(q) = 1 THEN [ok |-> FALSE, pairs |-> <<>>]
    ELSE LET rest == MakePairs(SubSeq(q, 3, Len(q))) IN
         [ok |-> rest.ok, pairs |-> <<<<q[1], q[2]>>>> \o rest.pairs]

Digits == <<"0","1","2","3","4","5","6","7","8","9">>

\* Display of a usize
RECURSIVE Dec(_)
Dec(n) == IF n < 10 THEN <<Digits[n + 1]>> ELSE Dec(n \div 10) \o <<Digits[(n % 10) + 1]>>

\* Debug of a (usize, usize)
DebugPair(p) == <<"(">> \o Dec(p[1]) \o <<",", " ">> \o Dec(p[2]) \o <<")">>

RECURSIVE DebugPairsFrom(_, _)
DebugPairsFrom(ps, i) ==
    IF i > Len(ps) THEN <<>>
    ELSE (IF i > 1 THEN <<",", " ">> ELSE <<>>) \o DebugPair(ps[i]) \o DebugPairsFrom(ps, i + 1)

\* Debug of a VecDeque<(usize, usize)>
DebugPairs(ps) == <<"[">> \o DebugPairsFrom(ps, 1) \o <<"]">>

\* the three writeln! calls that open the composed source
Header(rep, opairs, cpairs) ==
    <<"/","/"," ","r","e","p","_","s","t","a","r","t",","," ","r","e","p","_","e","n","d",":"," ">>
        \o Dec(rep[1]) \o <<",", " ">> \o Dec(rep[2]) \o <<"\n">>
    \o <<"/","/"," ","o","p","e","n","_","b","r","a","c","e","_","p","a","i","r","s",":"," ">>
        \o DebugPairs(opairs) \o <<"\n">>
    \o <<"/","/"," ","c","l","o","s","e","_","b","r","a","c","e","_","p","a","i","r","s",":"," ">>
        \o DebugPairs(cpairs) \o <<"\n">>

ScanDone == pc = "scan" /\ idx = Len(template.val)

NoReplacement ==
    /\ ScanDone
    /\ ~replacement.some
    /\ pc' = "panic"
    /\ err' = "no {} found in skeptic template"
    /\ UNCHANGED <<template, test, idx, state, open_brace_runs, close_brace_runs,
                   replacement, open_brace_pairs, close_brace_pairs,
                   template_chars, src>>
    /\ UNCHANGED <<evars, fvars, dvars, gvars>>

PairRuns ==
    /\ ScanDone
    /\ replacement.some
    /\ LET op == MakePairs(Flatten(open_brace_runs))
           cp == MakePairs(Flatten(close_brace_runs)) IN
       IF op.ok /\ cp.ok
       THEN /\ open_brace_pairs' = op.pairs
            /\ close_brace_pairs' = cp.pairs
            /\ template_chars' = template.val
            /\ src' = Header(replacement.val, op.pairs, cp.pairs)
            /\ idx' = 0
            /\ pc' = "render"
            /\ UNCHANGED err
       ELSE /\ pc' = "panic"
            /\ err' = "unwrap"
            /\ UNCHANGED <<open_brace_pairs, close_brace_pairs, template_chars, src, idx>>
    /\ UNCHANGED <<template, test, state, open_brace_runs, close_brace_runs, replacement>>
    /\ UNCHANGED <<evars, fvars, dvars, gvars>>

----------------------------------------------------------------------------
(* compose_template: the render loop, one action per branch *)

Rendering == pc = "render" /\ idx # Len(template.val)

rep_start == replacement.val[1]
rep_end == replacement.val[2]

AtOpenPair == open_brace_pairs # <<>> /\ open_brace_pairs[1][1] = idx
AtClosePair == close_brace_pairs # <<>> /\ close_brace_pairs[1][1] = idx

RenderFrame == UNCHANGED <<template, test, state, open_brace_runs, close_brace_runs,
                           replacement, evars, fvars, dvars, gvars>>

\* a pop_front().unwrap() on the exhausted queue, or a failed assert!
RenderPanic(kind) ==
    /\ pc' = "panic"
    /\ err' = kind
    /\ UNCHANGED <<idx, src, template_chars, open_brace_pairs, close_brace_pairs>>

MarkerSkip_OffByOne == IF rep_end > idx + 1 THEN rep_end - idx - 1 ELSE 0

MarkerSkip_TwoMore == IF rep_end >= idx THEN rep_end - idx + 2 ELSE 0

\* number of characters the marker branch pops after the first one
MarkerSkip == IF rep_end > idx THEN rep_end - idx ELSE 0

NotCloseBrace(ch) == ch # "}"

Splice_Unescaped(out, body) == out \o SelectSeq(body, NotCloseBrace)

\* src.push_str(&test)
Splice(out, body) == out \o body

RenderMarker ==
    /\ Rendering
    /\ idx = rep_start
    /\ IF Len(template_chars) < 1 + MarkerSkip
       THEN RenderPanic("unwrap")
       ELSE /\ src' = Splice(src, test)
            /\ idx' = idx + 1 + MarkerSkip
            /\ template_chars' = SubSeq(template_chars, 2 + MarkerSkip, Len(template_chars))
            /\ UNCHANGED <<pc, err, open_brace_pairs, close_brace_pairs>>
    /\ RenderFrame

RenderOpenPair ==
    /\ Rendering
    /\ idx # rep_start
    /\ AtOpenPair
    /\ IF template_chars = <<>>
       THEN RenderPanic("unwrap")
       ELSE IF open_brace_pairs[1][1] + 1 # open_brace_pairs[1][2]
       THEN RenderPanic("assert")
       ELSE IF Len(template_chars) < 2
       THEN RenderPanic("unwrap")
       ELSE /\ open_brace_pairs' = PopFront(open_brace_pairs)
            /\ template_chars' = PopFront(PopFront(template_chars))
            /\ src' = Append(src, "{")
            /\ idx' = idx + 2
            /\ UNCHANGED <<pc, err, close_brace_pairs>>
    /\ RenderFrame

RenderClosePair ==
    /\ Rendering
    /\ idx # rep_start
    /\ ~AtOpenPair
    /\ AtClosePair
    /\ IF template_chars = <<>>
       THEN RenderPanic("unwrap")
       ELSE IF close_brace_pairs[1][1] + 1 # close_brace_pairs[1][2]
       THEN RenderPanic("assert")
       ELSE IF Len(template_chars) < 2
       THEN RenderPanic("unwrap")
       ELSE /\ close_brace_pairs' = PopFront(close_brace_pairs)
            /\ template_chars' = PopFront(PopFront(template_chars))
            /\ src' = Append(src, "}")
            /\ idx' = idx + 2
            /\ UNCHANGED <<pc, err, open_brace_pairs>>
    /\ RenderFrame

RenderCopy ==
    /\ Rendering
    /\ idx # rep_start
    /\ ~AtOpenPair
    /\ ~AtClosePair
    /\ IF template_chars = <<>>
       THEN RenderPanic("unwrap")
       ELSE /\ src' = Append(src, Head(template_chars))
            /\ template_chars' = PopFront(template_chars)
            /\ idx' = idx + 1
            /\ UNCHANGED <<pc, err, open_brace_pairs, close_brace_pairs>>
    /\ RenderFrame

RenderDone ==
    /\ pc = "render"
    /\ idx = Len(template.val)
    /\ pc' = "done"
    /\ UNCHANGED <<template, test, idx, state, open_brace_runs, close_brace_runs,
                   replacement, open_brace_pairs, close_brace_pairs,
                   template_chars, src, err>>
    /\ UNCHANGED <<evars, fvars, dvars, gvars>>

----------------------------------------------------------------------------
(* The composer's specification *)

ComposeInit ==
    /\ template \in {None} \cup { Some(t) : t \in Templates }
    /\ test \in Bodies
    /\ pc = "call"
    /\ idx = 0
    /\ state = Nothin
    /\ open_brace_runs = <<>>
    /\ close_brace_runs = <<>>
    /\ replacement = None
    /\ open_brace_pairs = <<>>
    /\ close_brace_pairs = <<>>
    /\ template_chars = <<>>
    /\ src = <<>>
    /\ err = ""

ComposeNext ==
    \/ ComposeNone
    \/ ComposeSome
    \/ ScanNothin
    \/ ScanOpenBraceRun
    \/ ScanOpener
    \/ ScanCloseBraceRun
    \/ ScanCloseBraceRunWithOpener
    \/ NoReplacement
    \/ PairRuns
    \/ RenderMarker
    \/ RenderOpenPair
    \/ RenderClosePair
    \/ RenderCopy
    \/ RenderDone


----------------------------------------------------------------------------
(* Characters *)

UpperCase == <<"A","B","C","D","E","F","G","H","I","J","K","L","M",
               "N","O","P","Q","R","S","T","U","V","W","X","Y","Z">>
LowerCase == <<"a","b","c","d","e","f","g","h","i","j","k","l","m",
               "n","o","p","q","r","s","t","u","v","w","x","y","z">>

Range(f) == { f[i] : i \in DOMAIN f }

\* the ASCII letters and digits
AsciiAlphanumerics == Range(UpperCase) \cup Range(LowerCase) \cup Range(Digits)

IsAsciiAlphanumeric(ch) == ch \in AsciiAlphanumerics

\* char::is_alphanumeric on the characters of the model: the ASCII ones and
\* one letter outside ASCII, e with acute accent, written "U+00E9"
IsAlphanumeric(ch) == IsAsciiAlphanumeric(ch) \/ ch = "U+00E9"

\* to_ascii_lowercase on one character
ToAsciiLower(ch) ==
    IF ch \in Range(UpperCase)
    THEN LowerCase[CHOOSE i \in DOMAIN UpperCase : UpperCase[i] = ch]
    ELSE ch

\* str::split on the characters satisfying a separator test, given as the
\* set of separator characters that occur: the pieces, empty ones included
RECURSIVE SplitFrom(_, _, _)
SplitFrom(str, seps, cur) ==
    IF str = <<>> THEN <<cur>>
    ELSE IF Head(str) \in seps
         THEN <<cur>> \o SplitFrom(Tail(str), seps, <<>>)
         ELSE SplitFrom(Tail(str), seps, Append(cur, Head(str)))

Split(str, seps) == SplitFrom(str, seps, <<>>)

RECURSIVE Concat(_)
Concat(strs) == IF strs = <<>> THEN <<>> ELSE Head(strs) \o Concat(Tail(strs))

----------------------------------------------------------------------------
(* sanitize_test_name *)

SanitizeChar_NoLower(ch) == IF IsAsciiAlphanumeric(ch) THEN ch ELSE "_"

SanitizeChar(ch) ==
    LET lc == ToAsciiLower(ch) IN IF IsAsciiAlphanumeric(lc) THEN lc ELSE "_"

RECURSIVE SanitizeChars(_)
SanitizeChars(str) ==
    IF str = <<>> THEN <<>> ELSE <<SanitizeChar(Head(str))>> \o SanitizeChars(Tail(str))

\* drops the first empty piece only
JoinNonEmpty_DropOne(parts) ==
    LET empties == { i \in 1..Len(parts) : parts[i] = <<>> }
        first == CHOOSE i \in empties : \A k \in empties : i <= k
        kept == IF empties = {} THEN parts
                ELSE SubSeq(parts, 1, first - 1) \o SubSeq(parts, first + 1, Len(parts))
    IN  IF Len(kept) = 0 THEN <<>>
        ELSE Concat(<<kept[1]>> \o [i \in 1..(Len(kept) - 1) |-> <<"_">> \o kept[i + 1]])

RECURSIVE JoinNonEmpty(_)
JoinNonEmpty(parts) ==
    IF parts = <<>> THEN <<>>
    ELSE IF Head(parts) = <<>> THEN JoinNonEmpty(Tail(parts))
    ELSE LET rest == JoinNonEmpty(Tail(parts)) IN
         IF rest = <<>> THEN Head(parts) ELSE Head(parts) \o <<"_">> \o rest

sanitize_test_name(str) == JoinNonEmpty(Split(SanitizeChars(str), {"_"}))

----------------------------------------------------------------------------
(* parse_code_block_info *)

TokRust == <<"r","u","s","t">>
TokShouldPanic == <<"s","h","o","u","l","d","_","p","a","n","i","c">>
TokIgnore == <<"i","g","n","o","r","e">>
TokNoRun == <<"n","o","_","r","u","n">>
TokSkepticTemplate == <<"s","k","e","p","t","i","c","-","t","e","m","p","l","a","t","e">>
TokSktPrefix == <<"s","k","t","-">>

StartsWith(str, prefix) ==
    Len(str) >= Len(prefix) /\ SubSeq(str, 1, Len(prefix)) = prefix

InfoSeparators_Dash(info) ==
    { ch \in Range(info) : ~(ch = "_" \/ IsAlphanumeric(ch)) }

\* the separators of an info string: what is not '_', '-' or alphanumeric
InfoSeparators(info) ==
    { ch \in Range(info) : ~(ch = "_" \/ ch = "-" \/ IsAlphanumeric(ch)) }

EmptyInfo ==
    [is_rust |-> FALSE, should_panic |-> FALSE, ignore |-> FALSE, no_run |-> FALSE,
     is_old_template |-> FALSE, template |-> None,
     seen_rust_tags |-> FALSE, seen_other_tags |-> FALSE]

SktTemplate_KeepFirst(old, token) ==
    IF old.some THEN old ELSE Some(SubSeq(token, 5, Len(token)))

\* info.template = Some(token[4..].to_string())
SktTemplate(old, token) == Some(SubSeq(token, 5, Len(token)))

\* one round of the loop over the tokens
InfoToken(acc, token) ==
    CASE token = <<>> -> acc
      [] token = TokRust -> [acc EXCEPT !.is_rust = TRUE, !.seen_rust_tags = TRUE]
      [] token = TokShouldPanic -> [acc EXCEPT !.should_panic = TRUE, !.seen_rust_tags = TRUE]
      [] token = TokIgnore -> [acc EXCEPT !.ignore = TRUE, !.seen_rust_tags = TRUE]
      [] token = TokNoRun -> [acc EXCEPT !.no_run = TRUE, !.seen_rust_tags = TRUE]
      [] token = TokSkepticTemplate ->
            [acc EXCEPT !.is_old_template = TRUE, !.seen_rust_tags = TRUE]
      [] StartsWith(token, TokSktPrefix) ->
            [acc EXCEPT !.template = SktTemplate(acc.template, token),
                        !.seen_rust_tags = TRUE]
      [] OTHER -> [acc EXCEPT !.seen_other_tags = TRUE]

RECURSIVE InfoTokens(_, _)
InfoTokens(acc, tokens) ==
    IF tokens = <<>> THEN acc ELSE InfoTokens(InfoToken(acc, Head(tokens)), Tail(tokens))

FinalPolicy_Any(acc) == acc.is_rust \/ acc.seen_rust_tags

FinalPolicy_Strict(acc) == acc.is_rust /\ ~acc.seen_other_tags

\* info.is_rust &= !seen_other_tags || seen_rust_tags
FinalPolicy(acc) == acc.is_rust /\ (~acc.seen_other_tags \/ acc.seen_rust_tags)

parse_code_block_info(info) ==
    LET acc == InfoTokens(EmptyInfo, Split(info, InfoSeparators(info))) IN
    [is_rust |-> FinalPolicy(acc),
     should_panic |-> acc.should_panic,
     ignore |-> acc.ignore,
     no_run |-> acc.no_run,
     is_old_template |-> acc.is_old_template,
     template |-> acc.template]


----------------------------------------------------------------------------
(* extract_tests_from_string: inputs *)

MaxEvents == 7

FileStems == { <<"r","e","a","d","m","e">> }

InfoStrings ==
    { <<"r","u","s","t">>,
      <<"r","u","s","t",",","n","o","_","r","u","n",",","s","k","t","-","m","a","i","n">>,
      <<"p","y","t","h","o","n">>,
      <<"r","u","s","t",",","s","k","e","p","t","i","c","-","t","e","m","p","l","a","t","e">> }

HeaderTexts == { <<"I","n","t","r","o">>, <<"A"," ","&"," ","b","2">> }

\* the first line of a code block, and the lines after the first
CodeTexts == { <<"l","e","t"," ","x",";","\n">> }

MoreCodeTexts == { <<"x",";","\n">> }

HeaderLevels == 1..3

(* The Buffer register *)

BufNone == [tag |-> "None"]
BufCode(lines) == [tag |-> "Code", lines |-> lines]
BufHeader(text) == [tag |-> "Header", text |-> text]

----------------------------------------------------------------------------
(* extract_tests_from_string: the loop.  Each action is one round: the      *)
(* parser delivers an event it can deliver where it stands (pstate), the    *)
(* match arm for that event runs, and line_number becomes the line of the   *)
(* parser's new offset.                                                     *)

Looping == epc = "loop" /\ nevents < MaxEvents

\* the parser is inside a code block: "code" when it has delivered the
\* block's start only, "codetext" when it has delivered text of the block
InCodeBlock == pstate \in {"code", "codetext"}

\* the parser's offset moves over at most one line end while it delivers an
\* event that is not part of a code block
LineAdvance == {0, 1}

\* the line ends the offset moves over when the parser leaves a code block or
\* delivers an event between blocks: none, or a stretch of several lines
BlockGap == {0, 9, 28}

ExtractFrame == UNCHANGED <<cvars, file_stem, fvars, dvars, gvars>>

\* Event::Start(Tag::Header(level)) if level < 3
OnHeaderStart ==
    /\ Looping
    /\ pstate = "top"
    /\ \E level \in HeaderLevels :
         /\ level < 3
         /\ pstate' = "header"
    /\ buffer' = BufHeader(<<>>)
    /\ nevents' = nevents + 1
    /\ UNCHANGED <<pinfo, line_number, epc, section, code_block_start, old_template, tests>>
    /\ ExtractFrame

NewSection_Extend(old, sect) ==
    IF old.some
    THEN Some(old.val \o <<"_">> \o sanitize_test_name(sect))
    ELSE Some(sanitize_test_name(sect))

\* section = Some(sanitize_test_name(&sect))
NewSection(old, sect) == Some(sanitize_test_name(sect))

\* Event::End(Tag::Header(level)) if level < 3
OnHeaderEnd ==
    /\ Looping
    /\ pstate = "header"
    /\ pstate' = "top"
    /\ buffer' = BufNone
    /\ section' = IF buffer.tag = "Header"
                  THEN NewSection(section, buffer.text)
                  ELSE section
    /\ nevents' = nevents + 1
    /\ \E d \in LineAdvance : line_number' = line_number + d
    /\ UNCHANGED <<pinfo, epc, code_block_start, old_template, tests>>
    /\ ExtractFrame

StartBuffer_Always(info, buf) == BufCode(<<>>)

\* the Buffer after the start of a code block
StartBuffer(info, buf) ==
    IF parse_code_block_info(info).is_rust THEN BufCode(<<>>) ELSE buf

\* Event::Start(Tag::CodeBlock(ref info))
OnCodeBlockStart ==
    /\ Looping
    /\ pstate = "top"
    /\ \E info \in InfoStrings :
         /\ pinfo' = info
         /\ buffer' = StartBuffer(info, buffer)
    /\ pstate' = "code"
    /\ nevents' = nevents + 1
    /\ line_number' = line_number + 1
    /\ UNCHANGED <<epc, section, code_block_start, old_template, tests>>
    /\ ExtractFrame

PushLine_Front(buf, text) == <<text>> \o buf

\* buf.push(text.into_owned())
PushLine(buf, text) == Append(buf, text)

\* Event::Text(text)
OnText ==
    /\ Looping
    /\ pstate \in {"top", "header", "deepheader", "code", "codetext"}
    /\ \E text \in (CASE pstate = "code" -> CodeTexts
                      [] pstate = "codetext" -> MoreCodeTexts
                      [] OTHER -> HeaderTexts) :
         /\ buffer' = CASE buffer.tag = "Code" -> BufCode(PushLine(buffer.lines, text))
                        [] buffer.tag = "Header" -> BufHeader(buffer.text \o text)
                        [] OTHER -> buffer
    /\ code_block_start' = IF buffer.tag = "Code" /\ buffer.lines = <<>>
                           THEN line_number
                           ELSE code_block_start
    /\ nevents' = nevents + 1
    /\ IF InCodeBlock
       THEN line_number' = line_number + 1 /\ pstate' = "codetext"
       ELSE (\E d \in LineAdvance : line_number' = line_number + d) /\ pstate' = pstate
    /\ UNCHANGED <<pinfo, epc, section, old_template, tests>>
    /\ ExtractFrame

\* format!("{}_sect_{}_line_{}", ..) and format!("{}_line_{}", ..)
TestName(stem, sect, start) ==
    IF sect.some
    THEN stem \o <<"_","s","e","c","t","_">> \o sect.val \o <<"_","l","i","n","e","_">> \o Dec(start)
    ELSE stem \o <<"_","l","i","n","e","_">> \o Dec(start)

NewTest_SwapFlags(name, buf, info) ==
    [name |-> name, text |-> buf, ignore |-> info.no_run, no_run |-> info.ignore,
     should_panic |-> info.should_panic, template |-> info.template]

\* Test { name: name, text: buf, ignore: .., no_run: .., should_panic: .., template: .. }
NewTest(name, buf, info) ==
    [name |-> name, text |-> buf, ignore |-> info.ignore, no_run |-> info.no_run,
     should_panic |-> info.should_panic, template |-> info.template]

PushTest_Front(ts, t) == <<t>> \o ts

\* tests.push(Test { .. })
PushTest(ts, t) == Append(ts, t)

NewOldTemplate_KeepFirst(old, lines) == IF old.some THEN old ELSE Some(Concat(lines))

\* old_template = Some(buf.into_iter().collect())
NewOldTemplate(old, lines) == Some(Concat(lines))

\* Event::End(Tag::CodeBlock(ref info))
OnCodeBlockEnd ==
    /\ Looping
    /\ InCodeBlock
    /\ pstate' = "top"
    /\ LET code_block_info == parse_code_block_info(pinfo) IN
       IF buffer.tag = "Code"
       THEN IF code_block_info.is_old_template
            THEN /\ old_template' = NewOldTemplate(old_template, buffer.lines)
                 /\ UNCHANGED tests
            ELSE /\ tests' = PushTest(tests,
                        NewTest(TestName(file_stem, section, code_block_start),
                                buffer.lines, code_block_info))
                 /\ UNCHANGED old_template
       ELSE UNCHANGED <<old_template, tests>>
    /\ buffer' = BufNone
    /\ nevents' = nevents + 1
    /\ \E d \in BlockGap : line_number' = line_number + d
    /\ UNCHANGED <<pinfo, epc, section, code_block_start>>
    /\ ExtractFrame

\* _ => (): the start and the end of a header of level 3 or more, and any
\* other event (paragraphs, inline markup, rules, ...)
OnOtherEvent ==
    /\ Looping
    /\ \/ pstate = "top" /\ pstate' = "deepheader"
       \/ pstate = "deepheader" /\ pstate' = "top"
       \/ pstate \in {"top", "header", "deepheader"} /\ pstate' = pstate
    /\ nevents' = nevents + 1
    /\ \E d \in (IF pstate = "top" /\ pstate' = "top" THEN BlockGap ELSE LineAdvance) :
         line_number' = line_number + d
    /\ UNCHANGED <<pinfo, epc, buffer, section, code_block_start, old_template, tests>>
    /\ ExtractFrame

\* parser.next() is None: break, and (tests, old_template) is returned
OnEndOfEvents ==
    /\ epc = "loop"
    /\ pstate = "top"
    /\ epc' = "done"
    /\ UNCHANGED <<pstate, pinfo, nevents, line_number, buffer, section,
                   code_block_start, old_template, tests>>
    /\ ExtractFrame

----------------------------------------------------------------------------
(* Specifications *)

\* the extractor before extract_tests_from_string is called
ExtractIdle ==
    /\ file_stem = <<>>
    /\ pstate = "top"
    /\ pinfo = <<>>
    /\ nevents = 0
    /\ line_number = 0
    /\ epc = "idle"
    /\ buffer = BufNone
    /\ section = None
    /\ code_block_start = 0
    /\ old_template = None
    /\ tests = <<>>

\* the composer before compose_template is called
ComposeIdle ==
    /\ template = None
    /\ test = <<>>
    /\ pc = "idle"
    /\ idx = 0
    /\ state = Nothin
    /\ open_brace_runs = <<>>
    /\ close_brace_runs = <<>>
    /\ replacement = None
    /\ open_brace_pairs = <<>>
    /\ close_brace_pairs = <<>>
    /\ template_chars = <<>>
    /\ src = <<>>
    /\ err = ""

ExtractInit ==
    /\ file_stem \in FileStems
    /\ pstate = "top"
    /\ pinfo = <<>>
    /\ nevents = 0
    /\ line_number = 0
    /\ epc = "loop"
    /\ buffer = BufNone
    /\ section = None
    /\ code_block_start = 0
    /\ old_template = None
    /\ tests = <<>>

ExtractNext ==
    \/ OnHeaderStart
    \/ OnHeaderEnd
    \/ OnCodeBlockStart
    \/ OnText
    \/ OnCodeBlockEnd
    \/ OnOtherEvent
    \/ OnEndOfEvents

\* no string function has been called
CallIdle ==
    /\ call_arg = <<>>
    /\ call_ret = None
    /\ call_again = None

\* HashMap::new()
EmptyMap == [t \in {} |-> <<>>]

\* no companion file has been read and no Test is being built
DocIdle ==
    /\ templates = EmptyMap
    /\ code_buffer = None
    /\ skt_exists = FALSE
    /\ lpc = "idle"
    /\ building = 0

\* compose_template on every template and body of the input sets
\* no master project is being generated and no file is being written
GenIdle ==
    /\ suite = <<>>
    /\ sb = <<>>
    /\ deps = EmptyMap
    /\ members = <<>>
    /\ spc = "idle"
    /\ file = None
    /\ wlog = <<>>

Init == ComposeInit /\ ExtractIdle /\ CallIdle /\ DocIdle /\ GenIdle

Next == ComposeNext

Spec == Init /\ [][Next]_vars

\* compose_template runs on: a call that can take a step takes it
SpecFair == Init /\ [][Next]_vars /\ WF_vars(Next)

\* extract_tests_from_string on every event stream of at most MaxEvents events
InitExtract == ExtractInit /\ ComposeIdle /\ CallIdle /\ DocIdle /\ GenIdle

NextExtract == ExtractNext

SpecExtract == InitExtract /\ [][NextExtract]_vars

----------------------------------------------------------------------------
(* Template syntax as the specification words it: maximal brace runs and    *)
(* markers, read off the template text alone                                *)

\* the character at 0-based index i
CharAt(t, i) == t[i + 1]

IsBrace(ch) == ch \in {"{", "}"}

\* first and last index of the maximal run of equal characters around i
RunLo(t, i) ==
    CHOOSE k \in 0..i :
        /\ \A m \in k..i : CharAt(t, m) = CharAt(t, i)
        /\ (k = 0 \/ CharAt(t, k - 1) # CharAt(t, i))

RunHi(t, i) ==
    CHOOSE k \in i..(Len(t) - 1) :
        /\ \A m \in i..k : CharAt(t, m) = CharAt(t, i)
        /\ (k = Len(t) - 1 \/ CharAt(t, k + 1) # CharAt(t, i))

RunLen(t, i) == RunHi(t, i) - RunLo(t, i) + 1

\* index of the first non-whitespace character after i, Len(t) if there is none
NextNonWs(t, i) ==
    CHOOSE k \in (i + 1)..Len(t) :
        /\ \A m \in (i + 1)..(k - 1) : IsWhitespace(CharAt(t, m))
        /\ (k = Len(t) \/ ~IsWhitespace(CharAt(t, k)))

\* the substitution markers of a template: the free (last) brace of an
\* odd-length run of open braces, optional whitespace, and the first brace of
\* an odd-length run of close braces
Markers(t) ==
    { m \in (0..(Len(t) - 1)) \X (0..(Len(t) - 1)) :
        /\ CharAt(t, m[1]) = "{"
        /\ RunHi(t, m[1]) = m[1]
        /\ is_odd(RunLen(t, m[1]))
        /\ m[2] = NextNonWs(t, m[1])
        /\ CharAt(t, m[2]) = "}"
        /\ is_odd(RunLen(t, m[2])) }

\* the text the render loop has produced after the three comment lines
Rendered ==
    LET hdr == Header(replacement.val,
                      MakePairs(Flatten(open_brace_runs)).pairs,
                      MakePairs(Flatten(close_brace_runs)).pairs)
    IN SubSeq(src, Len(hdr) + 1, Len(src))

TemplateLen == Len(template.val)

----------------------------------------------------------------------------
(* C1: compose_template called with no template returns the body string     *)
(* unchanged, for every body.                                               *)
C1_NoTemplateReturnsBody ==
    (pc = "done" /\ ~template.some) => (src = test /\ err = "")

C1_Witness == pc = "done" /\ ~template.some /\ test = <<"{","X","}","}">>

----------------------------------------------------------------------------
(* Templates of the shape P ++ "{}" ++ S with P and S free of braces and S  *)
(* not empty; SimpleP is the length of P                                    *)

SimpleAt(t, p) ==
    /\ p + 3 <= Len(t)
    /\ CharAt(t, p) = "{"
    /\ CharAt(t, p + 1) = "}"
    /\ \A i \in 0..(Len(t) - 1) : (i # p /\ i # p + 1) => ~IsBrace(CharAt(t, i))

IsSimple(t) == \E p \in 0..(Len(t) - 1) : SimpleAt(t, p)

SimpleP(t) == CHOOSE p \in 0..(Len(t) - 1) : SimpleAt(t, p)

SimpleResult(t, body) ==
    SubSeq(t, 1, SimpleP(t)) \o body \o SubSeq(t, SimpleP(t) + 3, Len(t))

\* the comment lines in front of the composed text of such a template
SimpleComments(t) ==
    <<"/","/"," ","r","e","p","_","s","t","a","r","t",","," ","r","e","p","_","e","n","d",":"," ">>
    \o Dec(SimpleP(t)) \o <<",", " ">> \o Dec(SimpleP(t) + 1)
    \o <<"\n","/","/"," ","o","p","e","n","_","b","r","a","c","e","_","p","a","i","r","s",":"," ","[","]">>
    \o <<"\n","/","/"," ","c","l","o","s","e","_","b","r","a","c","e","_","p","a","i","r","s",":"," ","[","]","\n">>

(* C2 as claimed: for brace-free P, non-empty brace-free S and every body B, *)
(* compose_template(Some(P ++ "{}" ++ S), B) returns exactly P ++ B ++ S    *)
(* and nothing else.                                                        *)
C2_SimpleExact ==
    (template.some /\ IsSimple(template.val)) =>
        /\ pc # "panic"
        /\ pc = "done" => src = SimpleResult(template.val, test)

(* C2 amended: the returned string is the three comment lines written by    *)
(* the writeln! calls ("// rep_start, rep_end: p, p+1", "//                 *)
(* open_brace_pairs: []", "// close_brace_pairs: []") followed by exactly   *)
(* P ++ B ++ S.                                                             *)
C2_SimpleAfterComments ==
    (template.some /\ IsSimple(template.val)) =>
        /\ pc # "panic"
        /\ pc = "done" =>
             src = SimpleComments(template.val) \o SimpleResult(template.val, test)

C2_Witness ==
    /\ pc = "done"
    /\ template = Some(<<"w","r","a","p","(","{","}",")"," ","e","n","d">>)
    /\ test = <<"X">>
    /\ Rendered = <<"w","r","a","p","(","X",")"," ","e","n","d">>

----------------------------------------------------------------------------
(* C3: for every template with exactly one substitution marker, each        *)
(* doubled brace of an even-length run is rendered as exactly one literal   *)
(* brace, wherever the run occurs: the render step that starts on such a    *)
(* run starts on one of its pairs, emits one brace and skips two positions. *)
C3_DoubledBraceOneLiteral ==
    [][ ( /\ pc = "render"
          /\ idx < TemplateLen
          /\ Cardinality(Markers(template.val)) = 1
          /\ IsBrace(CharAt(template.val, idx))
          /\ ~is_odd(RunLen(template.val, idx)) )
        => ( /\ ~is_odd(idx - RunLo(template.val, idx))
             /\ src' = Append(src, CharAt(template.val, idx))
             /\ idx' = idx + 2 ) ]_vars

----------------------------------------------------------------------------
(* C4: every template that contains two or more substitution markers is     *)
(* rejected with the 'multiple markers' panic, for every body, and nothing  *)
(* is composed.                                                             *)
C4_MultipleMarkersRejected ==
    (template.some /\ Cardinality(Markers(template.val)) >= 2) =>
        /\ pc \notin {"render", "done"}
        /\ pc = "panic" => err = "multiple {} in skeptic template"
        /\ src = <<>>

----------------------------------------------------------------------------
(* C5: every supplied template that contains no substitution marker is      *)
(* rejected with the 'no marker' panic and nothing is composed.             *)
C5_NoMarkerRejected ==
    (template.some /\ Markers(template.val) = {}) =>
        /\ pc \notin {"render", "done"}
        /\ pc = "panic" => err = "no {} found in skeptic template"
        /\ src = <<>>

----------------------------------------------------------------------------
(* C6: every template that contains exactly one substitution marker is      *)
(* composed without a panic, wherever the marker lies in the template.      *)
C6_OneMarkerComposes ==
    (template.some /\ Cardinality(Markers(template.val)) = 1) => pc # "panic"

----------------------------------------------------------------------------
(* C7: a lone open brace, any run of whitespace and a lone close brace is   *)
(* recognised as the substitution marker, and the render pass replaces the  *)
(* whole span, braces and whitespace included, by the body.                 *)
LoneMarker(t, m) ==
    /\ Markers(t) = {m}
    /\ RunLen(t, m[1]) = 1
    /\ RunLen(t, m[2]) = 1

C7_LoneBracesAreMarker ==
    [][ template.some =>
          \A m \in Markers(template.val) :
             LoneMarker(template.val, m) =>
             /\ pc' # "panic"
             /\ pc' = "render" => replacement' = Some(m)
             /\ (pc = "render" /\ idx = m[1]) =>
                   (src' = src \o test /\ idx' = m[2] + 1) ]_vars

----------------------------------------------------------------------------
(* C8: when an odd-length run of three or more open braces supplies the     *)
(* marker's opener, the marker-open index is the last brace of that run and *)
(* the braces before it are rendered as one literal open brace per pair;    *)
(* when an odd-length run of three or more close braces supplies the        *)
(* closer, the marker-close index is one end of the run (its first brace)   *)
(* and the other braces are rendered as one literal close brace per pair;   *)
(* "{{{}}} " renders as "{" ++ body ++ "}" ++ " ".                          *)
C8_OddRunsAroundMarker ==
    [][ (pc = "render" /\ idx < TemplateLen) =>
          LET t == template.val
              openLo == RunLo(t, rep_start)
              closeHi == RunHi(t, rep_end)
          IN /\ RunLen(t, rep_start) >= 3 =>
                  /\ CharAt(t, rep_start) = "{"
                  /\ is_odd(RunLen(t, rep_start))
                  /\ rep_start = RunHi(t, rep_start)
                  /\ (openLo <= idx /\ idx < rep_start) =>
                        /\ ~is_odd(idx - openLo)
                        /\ src' = Append(src, "{")
                        /\ idx' = idx + 2
             /\ RunLen(t, rep_end) >= 3 =>
                  /\ CharAt(t, rep_end) = "}"
                  /\ is_odd(RunLen(t, rep_end))
                  /\ rep_end = RunLo(t, rep_end)
                  /\ (rep_end < idx /\ idx <= closeHi) =>
                        /\ is_odd(idx - rep_end)
                        /\ src' = Append(src, "}")
                        /\ idx' = idx + 2
             /\ idx = rep_start => (src' = src \o test /\ idx' = rep_end + 1)
             /\ (pc' = "done" /\ t = <<"{","{","{","}","}","}"," ">>) =>
                  Rendered' = <<"{">> \o test \o <<"}", " ">> ]_vars

C8_Witness ==
    /\ pc = "done"
    /\ template.some
    /\ RunLen(template.val, rep_start) >= 3
    /\ RunLen(template.val, rep_end) >= 3
    /\ test = <<"X">>

----------------------------------------------------------------------------
(* The leftover braces of a template that composed: the last brace of every *)
(* odd-length brace run that holds neither end of the confirmed marker      *)
(* (an abandoned candidate opener is the last brace of such a run)          *)
Leftovers(t, rep) ==
    { i \in 0..(Len(t) - 1) :
        /\ IsBrace(CharAt(t, i))
        /\ RunHi(t, i) = i
        /\ is_odd(RunLen(t, i))
        /\ ~(RunLo(t, i) <= rep[1] /\ rep[1] <= i)
        /\ ~(RunLo(t, i) <= rep[2] /\ rep[2] <= i) }

(* C9 as claimed: for every template that composes successfully, the        *)
(* leftover unpaired brace of an odd-length run that does not supply the    *)
(* marker is not emitted: the render step that consumes it adds nothing to  *)
(* the output for it.                                                       *)
C9_LeftoverNotEmitted ==
    [][ (pc = "render" /\ idx < TemplateLen
           /\ idx \in Leftovers(template.val, replacement.val))
        => src' = src ]_vars

(* C9 amended: for every template that composes successfully, the leftover  *)
(* unpaired brace (the last brace) of an odd-length run that does not       *)
(* supply the marker is copied to the output unchanged, as one brace, by a  *)
(* render step of its own: it is neither dropped nor taken into an escape   *)
(* pair or the marker span.                                                 *)
C9_LeftoverCopied ==
    [][ (pc = "render" /\ idx < TemplateLen) =>
          \A j \in Leftovers(template.val, replacement.val) :
             (idx <= j /\ j < idx') =>
                /\ j = idx
                /\ idx' = idx + 1
                /\ src' = Append(src, CharAt(template.val, j)) ]_vars

C9_Witness ==
    /\ pc = "done"
    /\ template = Some(<<"}","}","}","x","{"," ","}","}","}","}","}","x">>)
    /\ test = <<"X">>
    /\ Leftovers(template.val, replacement.val) = {2}
    /\ Rendered = <<"}","}","x","X","}","}","x">>

----------------------------------------------------------------------------
(* C10: after extract_tests_from_string has processed any event stream of   *)
(* one document, no two Test units of the returned list have the same name. *)
C10_NamesUnique ==
    epc = "done" =>
        \A i, j \in 1..Len(tests) : i # j => tests[i].name # tests[j].name

----------------------------------------------------------------------------
\* the Test that a step has added at the end of the list
Added == tests'[Len(tests')]

\* a step that adds a Test to the list
AddsTest == Len(tests') = Len(tests) + 1

\* file_stem, "_sect_" and the section if one is set, "_line_" and the line
NameFor(stem, sect, line) ==
    stem \o (IF sect.some THEN <<"_","s","e","c","t","_">> \o sect.val ELSE <<>>)
         \o <<"_","l","i","n","e","_">> \o Dec(line)

(* C11: every Test is named file_stem, "_sect_" and the section if one is   *)
(* set at the end of its block, "_line_" and L, where L is the line the     *)
(* parser was at when it delivered the first text event of that same block: *)
(* a Test is only added for a block that had a text event, the first text   *)
(* event of a sample block records the line, later ones keep it.            *)
C11_NameFromFirstTextLine ==
    [][ /\ (buffer.tag = "Code" /\ pstate = "code" /\ pstate' = "codetext")
            => code_block_start' = line_number
        /\ (pstate = "codetext" /\ pstate' = "codetext")
            => code_block_start' = code_block_start
        /\ AddsTest =>
            /\ pstate = "codetext"
            /\ Added.name = NameFor(file_stem, section, code_block_start) ]_vars

----------------------------------------------------------------------------
\* the value of a decimal digit
DigitValue(ch) == CHOOSE d \in 0..9 : Digits[d + 1] = ch

RECURSIVE ParseDec(_)
\* the number a string of decimal digits denotes
ParseDec(str) ==
    IF str = <<>> THEN 0
    ELSE 10 * ParseDec(SubSeq(str, 1, Len(str) - 1)) + DigitValue(str[Len(str)])

\* the number after the last underscore of a Test's name
LineOf(name) ==
    LET us == { i \in 1..Len(name) : name[i] = "_" }
        last == CHOOSE i \in us : \A k \in us : k <= i
    IN  ParseDec(SubSeq(name, last + 1, Len(name)))

(* C12: the Tests of a document are in the order of the end events of their *)
(* code blocks: the list only changes at the end event of a code block, and *)
(* then by one Test, with that block's text, added after all the earlier    *)
(* ones; so the Tests of blocks that have text are in the order of their    *)
(* lines (blocks at lines 10 and 40 give _line_10 and then _line_40).       *)
C12_OrderOfBlockEnds ==
    [][ /\ tests' # tests =>
            /\ InCodeBlock /\ pstate' = "top"
            /\ AddsTest
            /\ SubSeq(tests', 1, Len(tests)) = tests
            /\ Added.text = buffer.lines
        /\ \A i, j \in 1..Len(tests') :
            (i < j /\ tests'[i].text # <<>> /\ tests'[j].text # <<>>)
                => LineOf(tests'[i].name) < LineOf(tests'[j].name) ]_vars

\* two rust blocks under no heading, their first text at lines 10 and 40
C12_Witness ==
    /\ epc = "done"
    /\ Len(tests) = 2
    /\ tests[1].name = <<"r","e","a","d","m","e","_","l","i","n","e","_","1","0">>
    /\ tests[2].name = <<"r","e","a","d","m","e","_","l","i","n","e","_","4","0">>
    /\ tests[1].text # <<>> /\ tests[2].text # <<>>

----------------------------------------------------------------------------
\* a step that ends a heading of level 1 or 2
EndsHeading == pstate = "header" /\ pstate' = "top"

(* C13: the section is the sanitized text of the heading of level 1 or 2    *)
(* that ended last: the start of such a heading begins an empty text, the   *)
(* text events inside it add to that text, its end sets the section to the  *)
(* sanitized text whatever the section was, and no other step (a heading of *)
(* level 3 or more, a code block, any other event) changes the section.     *)
C13_SectionIsLastHeading ==
    [][ /\ (pstate = "top" /\ pstate' = "header") => buffer' = BufHeader(<<>>)
        /\ (pstate = "header" /\ pstate' = "header") =>
            /\ buffer'.tag = "Header"
            /\ \/ buffer' = buffer
               \/ \E text \in HeaderTexts : buffer'.text = buffer.text \o text
        /\ EndsHeading => section' = Some(sanitize_test_name(buffer.text))
        /\ ~EndsHeading => section' = section ]_vars

\* a block under the heading "Intro" has ended, and a later heading without
\* text has replaced the section
C13_Witness ==
    /\ pstate = "top"
    /\ section = Some(<<>>)
    /\ Len(tests) = 1
    /\ tests[1].name = <<"r","e","a","d","m","e","_","s","e","c","t","_",
                         "i","n","t","r","o","_","l","i","n","e","_","0">>

----------------------------------------------------------------------------
\* the info string of the code block a step starts, is inside of, or ends
BlockInfo == IF InCodeBlock THEN pinfo ELSE pinfo'

\* a step that delivers the start, a text or the end event of a code block
InBlockStep == InCodeBlock \/ pstate' \in {"code", "codetext"}

(* C14: a code block whose info string is not classified as a code sample   *)
(* is skipped: its start, text and end events leave the list of tests, the  *)
(* default template, the section and the recorded start line as they were,  *)
(* and the buffer stays empty, so that its text is added to no buffer.      *)
C14_NonSampleSkipped ==
    [][ (InBlockStep /\ ~parse_code_block_info(BlockInfo).is_rust) =>
            /\ UNCHANGED <<tests, old_template, section, code_block_start>>
            /\ buffer = BufNone /\ buffer' = BufNone ]_vars

\* the parser has delivered two text events of a python block that follows
\* a rust block
C14_Witness ==
    /\ pstate = "codetext"
    /\ pinfo = <<"p","y","t","h","o","n">>
    /\ nevents = 6
    /\ Len(tests) = 1 /\ Len(tests[1].text) = 1
    /\ code_block_start = 1
    /\ line_number = 5
    /\ buffer = BufNone

----------------------------------------------------------------------------
\* a step that ends an accumulated block marked as the legacy template
EndsOldTemplate ==
    /\ InCodeBlock /\ pstate' = "top"
    /\ buffer.tag = "Code"
    /\ parse_code_block_info(pinfo).is_old_template

(* C15: the end of an accumulated code block whose info string has the      *)
(* skeptic-template token makes the block's concatenated text the default   *)
(* template, whatever it was before, and adds no Test; no other step        *)
(* changes the default template, so the last such block determines it.      *)
C15_LegacyTemplateStored ==
    [][ /\ EndsOldTemplate =>
            /\ old_template' = Some(Concat(buffer.lines))
            /\ tests' = tests
        /\ ~EndsOldTemplate => old_template' = old_template ]_vars

\* two legacy template blocks, of one line and of two lines, have ended
C15_Witness ==
    /\ pstate = "top"
    /\ parse_code_block_info(pinfo).is_old_template
    /\ nevents = 7
    /\ code_block_start = 3
    /\ old_template = Some(<<"l","e","t"," ","x",";","\n","x",";","\n">>)
    /\ tests = <<>>

----------------------------------------------------------------------------
(* parse_code_block_info and sanitize_test_name called on their own *)

MaxTokens == 3

MaxNameLen == 4

\* the tokens the info strings are made of
InfoWords ==
    { TokRust, TokIgnore, TokNoRun, TokShouldPanic, TokSkepticTemplate,
      <<"s","k","t","-","m","a","i","n">>, <<"s","k","t","-","a">>, TokSktPrefix,
      <<"p","y","t","h","o","n">> }

RECURSIVE JoinWith(_, _)
JoinWith(words, sep) ==
    IF Len(words) = 0 THEN <<>>
    ELSE IF Len(words) = 1 THEN words[1]
    ELSE words[1] \o <<sep>> \o JoinWith(Tail(words), sep)

\* info strings with empty tokens, other separators, tokens that only
\* resemble the known ones, and a letter outside ASCII
InfoExamples ==
    { <<"r","u","s","t",",",",","i","g","n","o","r","e">>,
      <<","," ","r","u","s","t">>,
      <<"r","u","s","t",";","p","y","t","h","o","n">>,
      <<"R","u","s","t">>,
      <<"r","u","s","t","-","i","g","n","o","r","e">>,
      <<"n","o","-","r","u","n">>,
      <<"r","u","s","t","U+00E9">>,
      <<"{",".","r","u","s","t"," ",".","n","o","_","r","u","n","}">>,
      <<"s","k","t",",","r","u","s","t">> }

InfoInputs ==
    { JoinWith(words, sep) :
        words \in UNION { [1..n -> InfoWords] : n \in 0..MaxTokens },
        sep \in {",", " "} } \cup InfoExamples

NameAlphabet == {"A", "b", "7", "_", " ", "U+00E9"}

NameInputs == UNION { [1..n -> NameAlphabet] : n \in 0..MaxNameLen }

\* parse_code_block_info(info)
ParseInfoCall ==
    /\ ~call_ret.some
    /\ call_ret' = Some(parse_code_block_info(call_arg))
    /\ UNCHANGED <<call_arg, call_again, cvars, evars, dvars, gvars>>

\* sanitize_test_name(s)
SanitizeCall ==
    /\ ~call_ret.some
    /\ call_ret' = Some(sanitize_test_name(call_arg))
    /\ UNCHANGED <<call_arg, call_again, cvars, evars, dvars, gvars>>

\* sanitize_test_name on what sanitize_test_name returned
SanitizeAgain ==
    /\ call_ret.some /\ ~call_again.some
    /\ call_again' = Some(sanitize_test_name(call_ret.val))
    /\ UNCHANGED <<call_arg, call_ret, cvars, evars, dvars, gvars>>

InitInfo ==
    /\ call_arg \in InfoInputs
    /\ call_ret = None /\ call_again = None
    /\ ComposeIdle /\ ExtractIdle /\ DocIdle /\ GenIdle

NextInfo == ParseInfoCall

\* parse_code_block_info on every info string of the input set
SpecInfo == InitInfo /\ [][NextInfo]_vars

InitSanitize ==
    /\ call_arg \in NameInputs
    /\ call_ret = None /\ call_again = None
    /\ ComposeIdle /\ ExtractIdle /\ DocIdle /\ GenIdle

NextSanitize == SanitizeCall \/ SanitizeAgain

\* sanitize_test_name on every string of the input set, and on its result
SpecSanitize == InitSanitize /\ [][NextSanitize]_vars

----------------------------------------------------------------------------
\* a character of a token: alphanumeric, '_' or '-'
TokenChar(ch) == IsAlphanumeric(ch) \/ ch = "_" \/ ch = "-"

\* the positions where a token of the info string starts
TokenStarts(info) ==
    { a \in 1..Len(info) :
        TokenChar(info[a]) /\ (a = 1 \/ ~TokenChar(info[a - 1])) }

\* the token that starts at position a: the longest run of token characters
TokenAt(info, a) ==
    LET b == CHOOSE e \in a..Len(info) :
                /\ \A k \in a..e : TokenChar(info[k])
                /\ (e = Len(info) \/ ~TokenChar(info[e + 1]))
    IN  SubSeq(info, a, b)

\* the tokens of the info string, as a set
TokensOf(info) == { TokenAt(info, a) : a \in TokenStarts(info) }

\* a token of the table of the recognized ones
Recognized(token) ==
    \/ token \in {TokRust, TokShouldPanic, TokIgnore, TokNoRun, TokSkepticTemplate}
    \/ StartsWith(token, TokSktPrefix)

(* C16: parse_code_block_info classifies an info string as a code sample   *)
(* iff the token rust is among its tokens and (none of its tokens is        *)
(* unrecognized or one of them is recognized); "rust,ignore" is a sample    *)
(* with ignore set, "rust,python" is a sample, "python" is not a sample.    *)
C16_SamplePolicy ==
    call_ret.some =>
        \A toks \in {TokensOf(call_arg)} :
        /\ call_ret.val.is_rust <=>
            /\ TokRust \in toks
            /\ \/ \A t \in toks : Recognized(t)
               \/ \E t \in toks : Recognized(t)
        /\ call_arg = <<"r","u","s","t",",","i","g","n","o","r","e">>
            => call_ret.val.is_rust /\ call_ret.val.ignore
        /\ call_arg = <<"r","u","s","t",",","p","y","t","h","o","n">>
            => call_ret.val.is_rust
        /\ call_arg = <<"p","y","t","h","o","n">> => ~call_ret.val.is_rust

\* the call on "rust,python" has returned a sample
C16_Witness ==
    /\ call_ret.some
    /\ call_arg = <<"r","u","s","t",",","p","y","t","h","o","n">>
    /\ call_ret.val.is_rust /\ ~call_ret.val.ignore

(* C17: should_panic, ignore, no_run and the legacy-template flag of the    *)
(* result are set iff the token should_panic, ignore, no_run or             *)
(* skeptic-template is among the tokens of the info string, split at the    *)
(* characters that are not alphanumeric, '_' or '-': the flags are a        *)
(* function of the set of tokens, so neither the order, nor a repetition,   *)
(* nor an unrecognized token changes them.                                  *)
C17_FlagsFromTokens ==
    call_ret.some =>
        \A toks \in {TokensOf(call_arg)} :
        /\ call_ret.val.should_panic <=> TokShouldPanic \in toks
        /\ call_ret.val.ignore <=> TokIgnore \in toks
        /\ call_ret.val.no_run <=> TokNoRun \in toks
        /\ call_ret.val.is_old_template <=> TokSkepticTemplate \in toks

\* the call on "python no_run skeptic-template" has returned: two flags
\* set after an unrecognized token
C17_Witness ==
    /\ call_ret.some
    /\ call_arg = JoinWith(<< <<"p","y","t","h","o","n">>, TokNoRun, TokSkepticTemplate >>, " ")
    /\ call_ret.val.no_run /\ call_ret.val.is_old_template
    /\ ~call_ret.val.ignore /\ ~call_ret.val.should_panic

\* the positions where a token starting with skt- starts
SktStarts(info) ==
    { a \in TokenStarts(info) : StartsWith(TokenAt(info, a), TokSktPrefix) }

(* C18: the template of the result is present iff a token of the info       *)
(* string starts with skt-, and it is then the last such token of the info  *)
(* string without its first four characters.                                *)
C18_TemplateRef ==
    call_ret.some =>
        \A skts \in {SktStarts(call_arg)} :
        IF skts = {}
        THEN call_ret.val.template = None
        ELSE \A token \in {TokenAt(call_arg, CHOOSE a \in skts : \A k \in skts : k <= a)} :
                call_ret.val.template = Some(SubSeq(token, 5, Len(token)))

\* the call on "skt-main,rust,skt-a" has returned the template a
C18_Witness ==
    /\ call_ret.some
    /\ call_arg = JoinWith(<< <<"s","k","t","-","m","a","i","n">>, TokRust,
                              <<"s","k","t","-","a">> >>, ",")
    /\ call_ret.val.template = Some(<<"a">>)

----------------------------------------------------------------------------
(* C19: sanitize_test_name is idempotent: applied to its own result it      *)
(* returns that result.                                                     *)
C19_SanitizeIdempotent ==
    call_again.some => call_again.val = call_ret.val

\* sanitize_test_name has changed " A_b" to "a_b", and returned "a_b" for it
C19_Witness ==
    /\ call_again.some
    /\ call_arg = <<" ","A","_","b">>
    /\ call_ret.val = <<"a","_","b">>

\* lowercase ASCII letters and digits
NameChars == Range(LowerCase) \cup Range(Digits)

\* ^[a-z0-9]+(_[a-z0-9]+)*$
MatchesNamePattern(str) ==
    /\ str # <<>>
    /\ \A i \in 1..Len(str) : str[i] \in NameChars \cup {"_"}
    /\ str[1] # "_" /\ str[Len(str)] # "_"
    /\ \A i \in 1..(Len(str) - 1) : ~(str[i] = "_" /\ str[i + 1] = "_")

(* C20: what sanitize_test_name returns is empty or made of lowercase       *)
(* ASCII letters, digits and single underscores, with no underscore at its  *)
(* start or end and no two underscores in a row.                            *)
C20_SanitizedPattern ==
    call_ret.some => (call_ret.val = <<>> \/ MatchesNamePattern(call_ret.val))

\* an uppercase letter, a letter outside ASCII, a doubled separator
C20_Witness ==
    /\ call_ret.some
    /\ call_arg = <<"A","U+00E9","_","7">>
    /\ call_ret.val = <<"a","_","7">>

----------------------------------------------------------------------------
(* C26: the body is spliced into the output as it is and exactly once: the  *)
(* render step at the marker-open index adds the whole body and nothing     *)
(* else, every other render step adds one character of the template, no     *)
(* render step goes back or jumps over the marker-open index, and the body  *)
(* is never changed; whatever braces the body holds are not looked at.      *)
C26_BodySplicedVerbatim ==
    [][ (pc = "render" /\ pc' = "render") =>
            /\ test' = test
            /\ idx' > idx
            /\ idx < rep_start => idx' <= rep_start
            /\ IF idx = rep_start
               THEN src' = src \o test
               ELSE src' = Append(src, CharAt(template.val, idx)) ]_vars

\* a body with a brace pair in a template with escape pairs
C26_Witness ==
    /\ pc = "done"
    /\ template = Some(<<"{","{","{","}","}","}"," ">>)
    /\ test = <<"{","X","}","}">>
    /\ replacement.some
    /\ Rendered = <<"{","{","X","}","}","}"," ">>

----------------------------------------------------------------------------
\* the candidate openers of a template: the free (last) brace of each
\* odd-length run of open braces
Candidates(t) ==
    { i \in 0..(Len(t) - 1) :
        CharAt(t, i) = "{" /\ RunHi(t, i) = i /\ is_odd(RunLen(t, i)) }

\* the candidate at i is followed, after any whitespace, by an even-length
\* run of close braces
BeforeEvenCloseRun(t, i) ==
    LET k == NextNonWs(t, i) IN
    k < Len(t) /\ CharAt(t, k) = "}" /\ ~is_odd(RunLen(t, k))

\* the candidate at i is followed, after any whitespace, by a character that
\* is neither whitespace nor a close brace
BeforeOtherChar(t, i) ==
    LET k == NextNonWs(t, i) IN
    k < Len(t) /\ CharAt(t, k) # "}"

\* a candidate of one of the two shapes that confirm no marker
Abandoned(t, i) == BeforeEvenCloseRun(t, i) \/ BeforeOtherChar(t, i)

(* C27: a candidate opener followed by an even-length run of close braces,  *)
(* or by whitespace and then a character that is neither whitespace nor a   *)
(* close brace, is never taken as the marker-open index; a template that    *)
(* has candidates and only candidates of these shapes is rejected with the  *)
(* 'no marker' panic and nothing is composed.                               *)
C27_AbandonedOpeners ==
    template.some =>
        LET t == template.val IN
        /\ \A i \in Candidates(t) :
              (Abandoned(t, i) /\ replacement.some) => replacement.val[1] # i
        /\ (Candidates(t) # {} /\ \A i \in Candidates(t) : Abandoned(t, i)) =>
              /\ pc \notin {"render", "done"}
              /\ pc = "panic" => err = "no {} found in skeptic template"
              /\ src = <<>>

----------------------------------------------------------------------------
(* C28: while a template is scanned, the scanner is never in State::Opener  *)
(* with an open brace as the next character, and the unreachable!() branch  *)
(* is never executed.                                                       *)
C28_OpenerNeverSeesOpenBrace ==
    /\ (pc = "scan" /\ idx < Len(template.val) /\ state.tag = "Opener")
           => ScanCh # "{"
    /\ ~(pc = "panic" /\ err = "unreachable")

----------------------------------------------------------------------------
\* the scan has ended with a marker: the pairing loops and the render loop
\* have run or are running
ScanPassed ==
    /\ template.some /\ replacement.some
    /\ \/ pc \in {"render", "done"}
       \/ pc = "panic" /\ err \in {"unwrap", "assert"}

\* the escape pairs the pairing loops build from the recorded runs
OpenPairs == MakePairs(Flatten(open_brace_runs))
ClosePairs == MakePairs(Flatten(close_brace_runs))

\* every pair is two adjacent indices and the pairs are in ascending order
Adjacent(pairs) == \A i \in 1..Len(pairs) : pairs[i][1] + 1 = pairs[i][2]
Ascending(pairs) ==
    \A i, j \in 1..Len(pairs) : i < j => pairs[i][2] < pairs[j][1]

\* two spans of indices with no index in common
Apart(p, q) == p[2] < q[1] \/ q[2] < p[1]

(* C29: for every template that passes the scan, the pairing loops take     *)
(* the brace indices two by two without running out, every escape pair is   *)
(* (start, start + 1), the pairs are in ascending order, and no pair        *)
(* overlaps the marker span or another pair; no assert!(start + 1 == end)   *)
(* fails.                                                                   *)
C29_PairsWellFormed ==
    ScanPassed =>
        /\ OpenPairs.ok /\ ClosePairs.ok
        /\ err # "assert"
        /\ Adjacent(OpenPairs.pairs) /\ Adjacent(ClosePairs.pairs)
        /\ Ascending(OpenPairs.pairs) /\ Ascending(ClosePairs.pairs)
        /\ \A p \in Range(OpenPairs.pairs) \cup Range(ClosePairs.pairs) :
              Apart(p, replacement.val)
        /\ \A p \in Range(OpenPairs.pairs) : \A q \in Range(ClosePairs.pairs) :
              Apart(p, q)

\* "{{{}}} " has been composed: one pair on each side of the marker
C29_Witness ==
    /\ pc = "done"
    /\ template = Some(<<"{","{","{","}","}","}"," ">>)
    /\ replacement = Some(<<2, 3>>)
    /\ OpenPairs.pairs = << <<0, 1>> >>
    /\ ClosePairs.pairs = << <<4, 5>> >>

----------------------------------------------------------------------------
(* C30: for every template that passes the scan the render loop ends, with  *)
(* idx equal to the number of characters of the template: idx never goes    *)
(* beyond it, the character queue always holds the characters from idx on,  *)
(* and no character is popped from the exhausted queue.                     *)
C30_RenderTerminates ==
    /\ [](pc \in {"render", "done"} /\ template.some =>
            /\ idx <= Len(template.val)
            /\ template_chars = SubSeq(template.val, idx + 1, Len(template.val)))
    /\ [](~(pc = "panic" /\ err = "unwrap" /\ src # <<>>))
    /\ (pc = "render") ~> (pc = "done" /\ template.some /\ idx = Len(template.val))

\* the render loop has ended on "{{{}}} " after a pair skip, the marker
\* skip, a pair skip and a copy
C30_Witness ==
    /\ pc = "done"
    /\ template = Some(<<"{","{","{","}","}","}"," ">>)
    /\ replacement = Some(<<2, 3>>)
    /\ test = <<"X">>
    /\ idx = 7
    /\ template_chars = <<>>

----------------------------------------------------------------------------
(* C24: the ignore, no_run, should_panic and template fields of every Test  *)
(* are those of parse_code_block_info of the info string of the code block  *)
(* the Test was extracted from; a Test once in the list is not changed.     *)
C24_FlagsFromAnnotation ==
    [][ /\ AddsTest =>
            LET info == parse_code_block_info(pinfo) IN
            /\ InCodeBlock
            /\ Added.ignore = info.ignore
            /\ Added.no_run = info.no_run
            /\ Added.should_panic = info.should_panic
            /\ Added.template = info.template
        /\ \A i \in 1..Len(tests) : i <= Len(tests') /\ tests'[i] = tests[i] ]_vars

\* a block "rust" and a block "rust,no_run,skt-main" have ended
C24_Witness ==
    /\ Len(tests) = 2
    /\ ~tests[1].no_run /\ tests[1].template = None
    /\ tests[2].no_run /\ ~tests[2].ignore /\ ~tests[2].should_panic
    /\ tests[2].template = Some(<<"m","a","i","n">>)
    /\ pinfo = <<"r","u","s","t",",","n","o","_","r","u","n",",","s","k","t","-","m","a","i","n">>

----------------------------------------------------------------------------
(* clean_omitted_line and create_test_input *)

RECURSIVE TrimLeft(_)
\* str::trim_left
TrimLeft(str) ==
    IF str # <<>> /\ IsWhitespace(Head(str)) THEN TrimLeft(Tail(str)) ELSE str

RECURSIVE TrimRight(_)
\* str::trim_right
TrimRight(str) ==
    IF str # <<>> /\ IsWhitespace(str[Len(str)])
    THEN TrimRight(SubSeq(str, 1, Len(str) - 1))
    ELSE str

clean_omitted_line_NoTrim(line) ==
    IF StartsWith(line, <<"#", " ">>) THEN SubSeq(line, 3, Len(line))
    ELSE IF TrimRight(line) = <<"#">> THEN SubSeq(line, 2, Len(line))
    ELSE line

clean_omitted_line(line) ==
    LET trimmed == TrimLeft(line) IN
    IF StartsWith(trimmed, <<"#", " ">>) THEN SubSeq(trimmed, 3, Len(trimmed))
    ELSE IF TrimRight(trimmed) = <<"#">> THEN SubSeq(trimmed, 2, Len(trimmed))
    ELSE line

\* lines.iter().map(|s| clean_omitted_line(s).to_owned()).collect()
create_test_input(lines) ==
    Concat([i \in 1..Len(lines) |-> clean_omitted_line(lines[i])])

MaxLineLen == 3

LineAlphabet == {"#", " ", "x", "\n"}

\* lines of a code block: an attribute, a doubled marker, indented hidden
\* lines, a lone marker with a tab before and a line end after it
LineExamples ==
    { <<"#","[","x","]","\n">>,
      <<"#","#"," ","x","\n">>,
      <<" "," ","#"," ","x",";","\n">>,
      <<"\t","#","\n">>,
      <<"x"," ","#"," ","x","\n">>,
      <<"#"," ","#"," ","x","\n">> }

Lines == UNION { [1..n -> LineAlphabet] : n \in 0..MaxLineLen } \cup LineExamples

LineSeqs ==
    {<<>>} \cup { <<l>> : l \in Lines }
           \cup { <<l, e>> : l \in Lines, e \in LineExamples }
           \cup { <<e, l>> : l \in Lines, e \in LineExamples }

\* create_test_input(&test.text)
CreateTestInputCall ==
    /\ ~call_ret.some
    /\ call_ret' = Some(create_test_input(call_arg))
    /\ UNCHANGED <<call_arg, call_again, cvars, evars, dvars, gvars>>

InitClean ==
    /\ call_arg \in LineSeqs
    /\ call_ret = None /\ call_again = None
    /\ ComposeIdle /\ ExtractIdle /\ DocIdle /\ GenIdle

NextClean == CreateTestInputCall

\* create_test_input on every sequence of lines of the input set
SpecClean == InitClean /\ [][NextClean]_vars

\* the number of whitespace characters a line starts with
LeadLen(line) ==
    CHOOSE n \in 0..Len(line) :
        /\ \A k \in 1..n : IsWhitespace(line[k])
        /\ (n = Len(line) \/ ~IsWhitespace(line[n + 1]))

\* the line from its first character that is not whitespace
AfterLead(line) == SubSeq(line, LeadLen(line) + 1, Len(line))

\* the left-trimmed line starts with "# "
HasMarker(line) == StartsWith(AfterLead(line), <<"#", " ">>)

\* the line is a "#" between whitespace
OnlyHash(line) ==
    /\ AfterLead(line) # <<>>
    /\ Head(AfterLead(line)) = "#"
    /\ \A k \in 2..Len(AfterLead(line)) : IsWhitespace(AfterLead(line)[k])

\* a line without k of its characters from position at on
Without(line, at, k) == SubSeq(line, 1, at - 1) \o SubSeq(line, at + k, Len(line))

\* what is expected of a line when the marker alone is taken out of it
MarkerOut(line) ==
    IF HasMarker(line) THEN Without(line, LeadLen(line) + 1, 2)
    ELSE IF OnlyHash(line) THEN Without(line, LeadLen(line) + 1, 1)
    ELSE line

\* what is expected of a line when the whitespace before the marker goes
\* with it
LeadAndMarkerOut(line) ==
    IF HasMarker(line) THEN Without(line, 1, LeadLen(line) + 2)
    ELSE IF OnlyHash(line) THEN Without(line, 1, LeadLen(line) + 1)
    ELSE line

(* C25 as claimed: create_test_input returns the lines in their order, a    *)
(* line whose left-trimmed form starts with "# " without that marker, a     *)
(* line that is only a "#" between whitespace without the "#", every other  *)
(* line as it is.                                                           *)
C25_MarkerRemoved ==
    call_ret.some =>
        call_ret.val = Concat([i \in 1..Len(call_arg) |-> MarkerOut(call_arg[i])])

(* C25 as the code has it: create_test_input returns the lines in their     *)
(* order, a line whose left-trimmed form starts with "# " without that      *)
(* marker and without the whitespace before it, a line that is only a "#"   *)
(* between whitespace without the "#" and the whitespace before it, every   *)
(* other line as it is.                                                     *)
C25_LeadAndMarkerRemoved ==
    call_ret.some =>
        call_ret.val = Concat([i \in 1..Len(call_arg) |-> LeadAndMarkerOut(call_arg[i])])

\* an indented hidden line after an attribute line
C25_Witness ==
    /\ call_ret.some
    /\ call_arg = << <<"#","[","x","]","\n">>, <<" "," ","#"," ","x",";","\n">> >>
    /\ call_ret.val = <<"#","[","x","]","\n","x",";","\n">>

----------------------------------------------------------------------------
(* extract_tests_from_file, get_template and build_test_src *)

\* map.insert(k, v)
MapInsert(map, k, v) ==
    [t \in DOMAIN map \cup {k} |-> IF t = k THEN v ELSE map[t]]

get_template_PreferOld(map, old, t) ==
    IF t.template.some /\ ~old.some
    THEN IF t.template.val \in DOMAIN map
         THEN [ok |-> TRUE, val |-> Some(map[t.template.val])]
         ELSE [ok |-> FALSE, val |-> None]
    ELSE [ok |-> TRUE, val |-> old]

get_template_NoDefault(map, old, t) ==
    IF t.template.some
    THEN IF t.template.val \in DOMAIN map
         THEN [ok |-> TRUE, val |-> Some(map[t.template.val])]
         ELSE [ok |-> FALSE, val |-> None]
    ELSE [ok |-> TRUE, val |-> None]

get_template_Lenient(map, old, t) ==
    IF t.template.some
    THEN IF t.template.val \in DOMAIN map
         THEN [ok |-> TRUE, val |-> Some(map[t.template.val])]
         ELSE [ok |-> TRUE, val |-> old]
    ELSE [ok |-> TRUE, val |-> old]

\* get_template of a document with the named templates map and the legacy
\* template old, for the Test t: ok is FALSE when expect() panics
get_template(map, old, t) ==
    IF t.template.some
    THEN IF t.template.val \in DOMAIN map
         THEN [ok |-> TRUE, val |-> Some(map[t.template.val])]
         ELSE [ok |-> FALSE, val |-> None]
    ELSE [ok |-> TRUE, val |-> old]

\* the line build_test_src writes before the composed source
SrcPrefix ==
    <<"#","!","[","f","e","a","t","u","r","e","(","t","e","r","m","i","n",
      "a","t","i","o","n","_","t","r","a","i","t","_","l","i","b",")","]",
      " ","/","/"," ","s","k","e","p","t","i","c","\n","\n">>

\* the lines build_test_src writes after the composed source
SrcSuffix ==
    <<"\n","p","u","b"," ","f","n"," ","_","_","s","k","e","p","t","i","c",
      "_","m","a","i","n","(",")"," ","-",">"," ","i","3","2"," ","{","\n",
      " "," "," "," ","u","s","e"," ","s","t","d",":",":","p","r","o","c",
      "e","s","s",":",":","T","e","r","m","i","n","a","t","i","o","n",";",
      "\n"," "," "," "," ","l","e","t"," ","r"," ","="," ","m","a","i","n",
      "(",")",";","\n"," "," "," "," ","l","e","t"," ","e","x","i","t","_",
      "c","o","d","e"," ","="," ","r",".","r","e","p","o","r","t","(",")",
      ";","\n"," "," "," "," ","i","f"," ","e","x","i","t","_","c","o","d",
      "e"," ","!","="," ","0"," ","{","\n"," "," "," "," "," "," "," "," ",
      "p","r","i","n","t","l","n","!","(","\"","{",":","#","?","}","\"",",",
      " ","r",")",";","\n"," "," "," "," ","}","\n"," "," "," "," ","e","x",
      "i","t","_","c","o","d","e","\n","}","\n">>

(* inputs: what extract_tests_from_string and load_templates return *)

MaxTests == 2

TagMain == <<"m","a","i","n">>

BuildInfos ==
    { <<"r","u","s","t">>,
      <<"r","u","s","t",",","s","k","t","-","m","a","i","n">>,
      <<"r","u","s","t",",","s","k","t","-","g","o","n","e">> }

\* the lines of a code block: one plain line, or a hidden line and a line
\* with a pair of braces
BuildTexts ==
    { << <<"X","\n">> >>,
      << <<"#"," ","u",";","\n">>, <<"{","}","\n">> >> }

BuildTemplates ==
    { <<"{","{","{","}","}","}"," ">>,
      <<"}","}","{"," ","}","x">>,
      <<"x">> }

BuildNames == { <<"r","e","a","d","m","e","_","l","i","n","e","_","1">> }

BuildTests ==
    { NewTest(name, text, parse_code_block_info(info)) :
        name \in BuildNames, text \in BuildTexts, info \in BuildInfos }

BuildDocs == UNION { [1..k -> BuildTests] : k \in 0..MaxTests }

BuildMaps ==
    {EmptyMap} \cup { MapInsert(EmptyMap, TagMain, t) : t \in BuildTemplates }

BuildFrame ==
    UNCHANGED <<idx, state, open_brace_runs, close_brace_runs, replacement,
                open_brace_pairs, close_brace_pairs, template_chars,
                file_stem, pstate, pinfo, nevents, line_number, epc, buffer,
                section, code_block_start, fvars, code_buffer, skt_exists, lpc,
                gvars>>

\* extract_tests_from_file returns Ok(DocTest { .. }) with what
\* extract_tests_from_string and load_templates returned
ExtractTestsFromFile ==
    /\ pc = "file"
    /\ tests' \in BuildDocs
    /\ old_template' \in {None} \cup { Some(t) : t \in BuildTemplates }
    /\ templates' \in BuildMaps
    /\ pc' = "build"
    /\ UNCHANGED <<template, test, src, err, building>>
    /\ BuildFrame

\* File::open(path)? or file.read_to_string(s)? returns the error
ExtractIoError ==
    /\ pc = "file"
    /\ pc' = "ioerror"
    /\ err' = "io"
    /\ UNCHANGED <<template, test, src, building, tests, old_template, templates>>
    /\ BuildFrame

\* build_test_src up to its call of compose_template
BuildTestSrc ==
    /\ pc = "build"
    /\ \E i \in 1..Len(tests) :
         LET r == get_template(templates, old_template, tests[i]) IN
         /\ building' = i
         /\ IF r.ok
            THEN /\ template' = r.val
                 /\ test' = create_test_input(tests[i].text)
                 /\ pc' = "call"
                 /\ UNCHANGED err
            ELSE /\ pc' = "panic"
                 /\ err' = "template not found"
                 /\ UNCHANGED <<template, test>>
    /\ UNCHANGED <<src, tests, old_template, templates>>
    /\ BuildFrame

\* build_test_src after compose_template has returned
WrapTestSrc ==
    /\ pc = "done"
    /\ building > 0
    /\ src' = SrcPrefix \o src \o SrcSuffix
    /\ pc' = "built"
    /\ UNCHANGED <<template, test, err, building, tests, old_template, templates>>
    /\ BuildFrame

InitBuild ==
    /\ ExtractIdle /\ CallIdle /\ DocIdle /\ GenIdle
    /\ template = None
    /\ test = <<>>
    /\ pc = "file"
    /\ idx = 0
    /\ state = Nothin
    /\ open_brace_runs = <<>>
    /\ close_brace_runs = <<>>
    /\ replacement = None
    /\ open_brace_pairs = <<>>
    /\ close_brace_pairs = <<>>
    /\ template_chars = <<>>
    /\ src = <<>>
    /\ err = ""

NextBuild ==
    \/ ExtractTestsFromFile
    \/ ExtractIoError
    \/ BuildTestSrc
    \/ ComposeNext
    \/ WrapTestSrc

SpecBuild == InitBuild /\ [][NextBuild]_vars

\* the Test under construction names a tag the named templates do not have
MissingTag ==
    /\ building > 0
    /\ tests[building].template.some
    /\ tests[building].template.val \notin DOMAIN templates

C22_LazyValidation ==
    /\ building = 0 => (pc \in {"file", "build", "ioerror"} /\ err # "template not found")
    /\ MissingTag => (pc = "panic" /\ err = "template not found" /\ src = <<>>)
    /\ err = "template not found" => MissingTag

C22_Witness ==
    /\ MissingTag
    /\ Len(tests) = 2
    /\ pc = "panic"
    /\ err = "template not found"

----------------------------------------------------------------------------
(* load_templates: each action of the loop is one round, the parser        *)
(* delivering an event it can deliver where it stands (pstate)             *)

MaxLoadEvents == 6

LoadInfos ==
    { <<"r","u","s","t">>,
      <<"r","u","s","t",",","s","k","t","-","m","a","i","n">>,
      <<"r","u","s","t",",","s","k","t","-","a","u","x">>,
      <<"s","k","t","-","m","a","i","n">>,
      <<"r","u","s","t",",","s","k","t","-","m","a","i","n",",","s","k","t","-","a","u","x">> }

LoadTexts == { <<"a","\n">>, <<"{","}","\n">> }

LoadLooping == lpc = "loop" /\ nevents < MaxLoadEvents

LoadFrame ==
    UNCHANGED <<cvars, file_stem, line_number, epc, buffer, section,
                code_block_start, old_template, tests, fvars, building, gvars>>

\* if !path.exists() { return Ok(HashMap::new()); }
LoadMissing ==
    /\ lpc = "call"
    /\ ~skt_exists
    /\ templates' = EmptyMap
    /\ lpc' = "done"
    /\ UNCHANGED <<code_buffer, skt_exists, pstate, pinfo, nevents>>
    /\ LoadFrame

\* the companion file exists and is read: map and code_buffer are created
LoadOpen ==
    /\ lpc = "call"
    /\ skt_exists
    /\ templates' = EmptyMap
    /\ code_buffer' = None
    /\ lpc' = "loop"
    /\ UNCHANGED <<skt_exists, pstate, pinfo, nevents>>
    /\ LoadFrame

\* File::open(path)? or file.read_to_string(s)? returns the error
LoadIoError ==
    /\ lpc = "call"
    /\ skt_exists
    /\ lpc' = "ioerror"
    /\ UNCHANGED <<templates, code_buffer, skt_exists, pstate, pinfo, nevents>>
    /\ LoadFrame

\* Event::Start(Tag::CodeBlock(ref info))
LoadCodeBlockStart ==
    /\ LoadLooping
    /\ pstate = "top"
    /\ \E info \in LoadInfos :
         /\ pinfo' = info
         /\ code_buffer' = IF parse_code_block_info(info).is_rust
                           THEN Some(<<>>)
                           ELSE code_buffer
    /\ pstate' = "code"
    /\ nevents' = nevents + 1
    /\ UNCHANGED <<templates, skt_exists, lpc>>
    /\ LoadFrame

\* Event::Text(text)
LoadText ==
    /\ LoadLooping
    /\ pstate \in {"top", "code", "codetext"}
    /\ \E text \in (IF InCodeBlock THEN LoadTexts ELSE HeaderTexts) :
         code_buffer' = IF code_buffer.some
                        THEN Some(Append(code_buffer.val, text))
                        ELSE code_buffer
    /\ pstate' = IF InCodeBlock THEN "codetext" ELSE pstate
    /\ nevents' = nevents + 1
    /\ UNCHANGED <<templates, skt_exists, lpc, pinfo>>
    /\ LoadFrame

LoadInsert_KeepFirst(map, info, buf) ==
    IF info.template.some /\ info.template.val \notin DOMAIN map
    THEN MapInsert(map, info.template.val, Concat(buf))
    ELSE map

\* if let Some(t) = code_block_info.template { map.insert(t, ..collect()) }
LoadInsert(map, info, buf) ==
    IF info.template.some
    THEN MapInsert(map, info.template.val, Concat(buf))
    ELSE map

\* Event::End(Tag::CodeBlock(ref info))
LoadCodeBlockEnd ==
    /\ LoadLooping
    /\ InCodeBlock
    /\ templates' = IF code_buffer.some
                    THEN LoadInsert(templates, parse_code_block_info(pinfo),
                                    code_buffer.val)
                    ELSE templates
    /\ code_buffer' = None
    /\ pstate' = "top"
    /\ nevents' = nevents + 1
    /\ UNCHANGED <<skt_exists, lpc, pinfo>>
    /\ LoadFrame

\* _ => ()
LoadOtherEvent ==
    /\ LoadLooping
    /\ pstate = "top"
    /\ nevents' = nevents + 1
    /\ UNCHANGED <<templates, code_buffer, skt_exists, lpc, pstate, pinfo>>
    /\ LoadFrame

\* the parser has no more events: Ok(map)
LoadEndOfEvents ==
    /\ lpc = "loop"
    /\ pstate = "top"
    /\ lpc' = "done"
    /\ UNCHANGED <<templates, code_buffer, skt_exists, pstate, pinfo, nevents>>
    /\ LoadFrame

InitLoad ==
    /\ ComposeIdle /\ ExtractIdle /\ CallIdle /\ GenIdle
    /\ templates = EmptyMap
    /\ code_buffer = None
    /\ skt_exists \in BOOLEAN
    /\ lpc = "call"
    /\ building = 0

NextLoad ==
    \/ LoadMissing
    \/ LoadOpen
    \/ LoadIoError
    \/ LoadOtherEvent
    \/ LoadCodeBlockStart
    \/ LoadText
    \/ LoadCodeBlockEnd
    \/ LoadEndOfEvents

SpecLoad == InitLoad /\ [][NextLoad]_vars

\* the tags of the skt- tokens of an info string
SktTags(info) ==
    { SubSeq(token, 5, Len(token)) :
        token \in { tk \in Range(Split(info, InfoSeparators(info))) :
                      StartsWith(tk, TokSktPrefix) } }

\* the step is the end of a code block of the companion document
LoadBlockEnds == lpc = "loop" /\ InCodeBlock /\ pstate' = "top"

\* the text of the block collected so far, for a block that is collected
LoadCollects ==
    /\ (lpc = "loop" /\ pstate = "top" /\ pstate' = "code"
            /\ parse_code_block_info(pinfo').is_rust)
         => code_buffer' = Some(<<>>)
    /\ (lpc = "loop" /\ InCodeBlock /\ pstate' = "codetext" /\ code_buffer.some)
         => \E text \in LoadTexts : code_buffer' = Some(Append(code_buffer.val, text))

\* a missing companion file gives the empty map, and between the ends of
\* blocks the map does not change
LoadElsewhere ==
    /\ (lpc' = "done" /\ ~skt_exists) => templates' = EmptyMap
    /\ (lpc = "loop" /\ ~LoadBlockEnds) => templates' = templates
    /\ (lpc = "call" /\ lpc' = "loop") => templates' = EmptyMap

\* C23 as stated: load_templates returns the empty map when the companion
\* file is missing; otherwise every block puts an entry tag -> concatenated
\* block text into the map for each tag of its skt- tokens, replacing an
\* earlier entry of the tag, and a block without skt- token changes nothing
C23_EveryTagOfEveryBlock ==
    [][/\ LoadElsewhere
       /\ LoadCollects
       /\ LoadBlockEnds =>
            /\ \A tag \in SktTags(pinfo) :
                 /\ tag \in DOMAIN templates'
                 /\ code_buffer.some => templates'[tag] = Concat(code_buffer.val)
            /\ \A tag \in DOMAIN templates' \ SktTags(pinfo) :
                 tag \in DOMAIN templates /\ templates'[tag] = templates[tag]]_vars

\* C23 amended: load_templates returns the empty map when the companion
\* file is missing; otherwise a block puts an entry into the map only if it
\* is classified as a code sample and has a skt- token; the entry is
\* tag -> concatenated block text for the tag of its last skt- token, and it
\* replaces an earlier entry of the tag; every other block changes nothing
C23_TagOfCodeSamples ==
    [][/\ LoadElsewhere
       /\ LoadCollects
       /\ LoadBlockEnds =>
            LET info == parse_code_block_info(pinfo) IN
            IF info.is_rust /\ SktTags(pinfo) # {}
            THEN /\ code_buffer.some
                 /\ info.template.some
                 /\ info.template.val \in SktTags(pinfo)
                 /\ templates' = MapInsert(templates, info.template.val,
                                           Concat(code_buffer.val))
            ELSE templates' = templates]_vars

\* the companion document had a code sample with the tokens skt-main and
\* skt-aux and then a block with the lone token skt-main: the map returned
\* has the text of the first block under aux, and nothing else
C23_Witness ==
    /\ lpc = "done"
    /\ skt_exists
    /\ nevents = 6
    /\ pinfo = <<"s","k","t","-","m","a","i","n">>
    /\ DOMAIN templates = {<<"a","u","x">>}
    /\ templates[<<"a","u","x">>] = <<"a","\n">>

----------------------------------------------------------------------------
\* the template characters at the indices a..b
Stretch(a, b) == [k \in 1..(b - a + 1) |-> CharAt(template.val, a + k - 1)]

\* an open brace, whitespace characters, a close brace
MarkerShaped(str) ==
    /\ Len(str) >= 2
    /\ str[1] = "{"
    /\ str[Len(str)] = "}"
    /\ \A k \in 2..(Len(str) - 1) : IsWhitespace(str[k])

(* C31: a marker the scan has confirmed has rep_start < rep_end, an open    *)
(* brace at rep_start, a close brace at rep_end and only whitespace         *)
(* between them.  The render step at rep_start consumes exactly the         *)
(* template characters rep_start..rep_end, so what it drops is the marker   *)
(* braces and that whitespace; every other render step puts the template    *)
(* character it stands on into the source (for an escaped pair, the brace   *)
(* of the pair), and what is left to render is always the rest of the       *)
(* template from idx on.                                                    *)
C31_MarkerShape ==
    /\ [](replacement.some =>
            /\ rep_start < rep_end
            /\ rep_end < Len(template.val)
            /\ MarkerShaped(Stretch(rep_start, rep_end)))
    /\ [](pc = "render" =>
            template_chars = SubSeq(template.val, idx + 1, Len(template.val)))
    /\ [][ (pc = "render" /\ pc' = "render") =>
             IF idx = rep_start
             THEN /\ idx' = rep_end + 1
                  /\ MarkerShaped(Stretch(idx, idx' - 1))
             ELSE /\ src' = Append(src, CharAt(template.val, idx))
                  /\ idx' \in {idx + 1, idx + 2}
                  /\ idx' = idx + 2 =>
                        /\ CharAt(template.val, idx) \in {"{", "}"}
                        /\ CharAt(template.val, idx + 1) = CharAt(template.val, idx) ]_vars

\* "x{ }x" has been rendered: the marker (1, 3) with a space inside
C31_Witness ==
    /\ pc = "done"
    /\ template = Some(<<"x","{"," ","}","x">>)
    /\ replacement = Some(<<1, 3>>)
    /\ test = <<"X">>
    /\ Rendered = <<"x","X","x">>

----------------------------------------------------------------------------
\* the recognized tokens other than rust, and a skt- token
NonRustTokens ==
    {TokShouldPanic, TokIgnore, TokNoRun, TokSkepticTemplate,
     <<"s","k","t","-","m","a","i","n">>}

(* C32: parse_code_block_info classifies an info string as a code sample   *)
(* iff one of its tokens is exactly rust: unrecognized tokens beside rust   *)
(* never disqualify it, and the empty info string and an info string of     *)
(* ignore, no_run, should_panic, skeptic-template and skt- tokens only is   *)
(* not a sample.                                                            *)
C32_SampleIffRust ==
    call_ret.some =>
        \A toks \in {TokensOf(call_arg)} :
        /\ call_ret.val.is_rust <=> TokRust \in toks
        /\ (TokRust \in toks /\ \E t \in toks : ~Recognized(t)) => call_ret.val.is_rust
        /\ call_arg = <<>> => ~call_ret.val.is_rust
        /\ toks \subseteq NonRustTokens => ~call_ret.val.is_rust

\* the call on "python rust python" has returned a sample, and so unrecognized
\* tokens before and after rust did not disqualify it
C32_Witness ==
    /\ call_ret.some
    /\ call_arg = JoinWith(<< <<"p","y","t","h","o","n">>, TokRust,
                              <<"p","y","t","h","o","n">> >>, " ")
    /\ call_ret.val.is_rust

----------------------------------------------------------------------------
\* the step is an event of the loop of extract_tests_from_string
StartsBlock == epc = "loop" /\ pstate = "top" /\ pstate' = "code"
TextInBlock == epc = "loop" /\ InCodeBlock /\ pstate' = "codetext"
EndsBlock == epc = "loop" /\ InCodeBlock /\ pstate' = "top"
EndsHeader == epc = "loop" /\ pstate = "header" /\ pstate' = "top"

\* the lines a code block can have: a first line and following lines
BlockLines(lines) ==
    /\ Len(lines) >= 1 => lines[1] \in CodeTexts
    /\ \A k \in 2..Len(lines) : lines[k] \in MoreCodeTexts

(* C33: the body of a Test is the sequence of the text events between the  *)
(* start and the end of its code block, in order.  The buffer is emptied    *)
(* at the start of a code sample, each text event of the block is put       *)
(* behind the lines so far, and the end of the block hands exactly these    *)
(* lines to the Test or to the legacy template; a block that is skipped     *)
(* collects nothing, text outside code blocks never reaches a buffer of     *)
(* lines, a Test once pushed is not changed, and the buffer is empty after  *)
(* the end of every code block and of every header of level 1 or 2, and     *)
(* so between all blocks.                                                   *)
C33_BodyIsBlockText ==
    /\ [](pstate = "top" => buffer = BufNone)
    /\ [](buffer.tag = "Code" => (InCodeBlock /\ BlockLines(buffer.lines)))
    /\ [](\A k \in 1..Len(tests) :
            tests[k].text = <<>> \/ BlockLines(tests[k].text))
    /\ [][ /\ StartsBlock =>
                buffer' = IF parse_code_block_info(pinfo').is_rust
                          THEN BufCode(<<>>)
                          ELSE BufNone
           /\ TextInBlock =>
                IF buffer.tag = "Code"
                THEN \E text \in CodeTexts \cup MoreCodeTexts :
                        buffer' = BufCode(Append(buffer.lines, text))
                ELSE buffer' = BufNone
           /\ EndsBlock =>
                /\ buffer' = BufNone
                /\ \/ tests' = tests
                   \/ /\ buffer.tag = "Code"
                      /\ Len(tests') = Len(tests) + 1
                      /\ tests'[Len(tests')].text = buffer.lines
           /\ EndsHeader => buffer' = BufNone
           /\ ~EndsBlock => tests' = tests
           /\ SubSeq(tests', 1, Len(tests)) = tests ]_vars

\* a header with text and then a code sample of two lines have been read:
\* the body of the Test is the two lines of the block
C33_Witness ==
    /\ nevents = 7
    /\ pstate = "top"
    /\ buffer = BufNone
    /\ section.some
    /\ Len(tests) = 1
    /\ tests[1].text = << <<"l","e","t"," ","x",";","\n">>, <<"x",";","\n">> >>

----------------------------------------------------------------------------
(* C34: for a Test with a template reference, the template handed to       *)
(* compose_template is the entry of the named templates under that tag,     *)
(* whatever the legacy template of the document is; when the tag has no     *)
(* entry, get_template panics and no template, the legacy one included, is  *)
(* handed on.                                                               *)
C34_OnlyNamedTemplates ==
    (building > 0 /\ tests[building].template.some) =>
        IF tests[building].template.val \in DOMAIN templates
        THEN /\ template = Some(templates[tests[building].template.val])
             /\ err # "template not found"
        ELSE /\ template = None
             /\ pc = "panic"
             /\ err = "template not found"
             /\ src = <<>>

\* a Test that refers to main has been built with the entry of main, in a
\* document whose legacy template is another text
C34_Witness ==
    /\ building > 0
    /\ tests[building].template = Some(TagMain)
    /\ old_template = Some(<<"x">>)
    /\ TagMain \in DOMAIN templates
    /\ templates[TagMain] = <<"{","{","{","}","}","}"," ">>
    /\ template = Some(<<"{","{","{","}","}","}"," ">>)
    /\ pc = "built"

----------------------------------------------------------------------------
(* emit_supercrate_project: build_supercrate_src and the manifest of the   *)
(* master project, build_supercrate_manifest in lib.rs and                  *)
(* build_supercrate_manifest_template in emit.rs                            *)

MaxSuiteTests == 2

\* names as extract_tests_from_string gives them; documents with the same
\* file stem, and code blocks without text, give the same name twice
SuiteNames ==
    { TestName(<<"r","e","a","d","m","e">>, None, 0),
      TestName(<<"r","e","a","d","m","e">>, None, 9) }

SuiteInfos ==
    { <<"r","u","s","t">>,
      <<"r","u","s","t",",","i","g","n","o","r","e">>,
      <<"r","u","s","t",",","n","o","_","r","u","n">> }

SuiteTests ==
    { NewTest(name, <<>>, parse_code_block_info(info)) :
        name \in SuiteNames, info \in SuiteInfos }

SuiteDocs == UNION { [1..k -> SuiteTests] : k \in 0..MaxSuiteTests }

Suites == UNION { [1..n -> SuiteDocs] : n \in 1..2 }

\* for test_doc in &suite.doc_tests { for test in &test_doc.tests { .. } }
AllTests(docs) == Concat(docs)

\* if !(test.ignore || test.no_run)
IsDispatched(t) == ~(t.ignore \/ t.no_run)

\* the branch of main for a test: the name it compares the argument with
\* and the crate whose __skeptic_main it calls
Branch(t) == [test_name |-> t.name, main |-> t.name]

RECURSIVE LibDeps(_, _)
\* lib.rs: if !test.ignore && !test.no_run, props with the path "../name"
LibDeps(map, ts) ==
    IF ts = <<>> THEN map
    ELSE LET t == Head(ts) IN
         LibDeps(IF ~t.ignore /\ ~t.no_run
                 THEN MapInsert(map, t.name, [path |-> <<".", ".", "/">> \o t.name])
                 ELSE map,
                 Tail(ts))

\* emit.rs: the props of a test that is not ignored
EmitProps(t) ==
    IF t.no_run THEN [path |-> t.name, optional |-> TRUE] ELSE [path |-> t.name]

RECURSIVE EmitDeps(_, _)
\* emit.rs: if !test.ignore
EmitDeps(map, ts) ==
    IF ts = <<>> THEN map
    ELSE LET t == Head(ts) IN
         EmitDeps(IF ~t.ignore THEN MapInsert(map, t.name, EmitProps(t)) ELSE map,
                  Tail(ts))

NotIgnored(t) == ~t.ignore

SuperFrame ==
    UNCHANGED <<cvars, evars, fvars, dvars, suite, file, wlog>>

BuildSupercrateSrc ==
    /\ spc = "call"
    /\ LET sel == SelectSeq(AllTests(suite), IsDispatched) IN
       sb' = [k \in 1..Len(sel) |-> Branch(sel[k])]
    /\ spc' = "src"
    /\ UNCHANGED <<deps, members>>
    /\ SuperFrame

\* lib.rs
BuildSupercrateManifest ==
    /\ spc = "src"
    /\ deps' = LibDeps(EmptyMap, AllTests(suite))
    /\ spc' = "lib"
    /\ UNCHANGED <<sb, members>>
    /\ SuperFrame

\* emit.rs
BuildSupercrateManifestTemplate ==
    /\ spc = "src"
    /\ deps' = EmitDeps(EmptyMap, AllTests(suite))
    /\ LET sel == SelectSeq(AllTests(suite), NotIgnored) IN
       members' = [k \in 1..Len(sel) |-> sel[k].name]
    /\ spc' = "emit"
    /\ UNCHANGED sb
    /\ SuperFrame

InitSuper ==
    /\ ComposeIdle /\ ExtractIdle /\ CallIdle /\ DocIdle
    /\ suite \in Suites
    /\ sb = <<>>
    /\ deps = EmptyMap
    /\ members = <<>>
    /\ spc = "call"
    /\ file = None
    /\ wlog = <<>>

NextSuper ==
    \/ BuildSupercrateSrc
    \/ BuildSupercrateManifest
    \/ BuildSupercrateManifestTemplate

SpecSuper == InitSuper /\ [][NextSuper]_vars

\* the test names main has a branch for
DispatchedNames == { sb[k].test_name : k \in DOMAIN sb }

(* C35: in the master project, every test main dispatches to, that is      *)
(* every test with neither ignore nor no_run, has a branch in main and an   *)
(* entry in the dependencies of the manifest, and no test with ignore has   *)
(* a branch in main or an entry in the dependencies.  main and the          *)
(* manifest name a test by its name.                                        *)
C35_DispatchedAreListed ==
    spc \in {"lib", "emit"} =>
        /\ DispatchedNames \subseteq DOMAIN deps
        /\ \A t \in Range(AllTests(suite)) :
             /\ IsDispatched(t) => (t.name \in DispatchedNames /\ t.name \in DOMAIN deps)
             /\ t.ignore => (t.name \notin DispatchedNames /\ t.name \notin DOMAIN deps)

----------------------------------------------------------------------------
(* write_if_contents_changed: one action is one call.  The file is None    *)
(* when it does not exist.  Each operation that ends in ? can fail: fault   *)
(* names the one that does, and cut is the number of characters write_all   *)
(* has written when it fails.                                               *)

MaxCalls == 2

WriteTexts == { <<>>, <<"a">>, <<"a","b">> }

Faults == {"none", "create_dir_all", "open", "read_to_string", "create", "write_all"}

\* what a call leaves behind: its result, the file, whether File::create
\* has truncated or created the file, whether write_all has completed
WriteOutcome(result, f, created, written) ==
    [result |-> result, file |-> f, created |-> created, written |-> written]

\* File::create(name)?; file.write_all(contents.as_bytes())?; Ok(())
CreateAndWrite(f, contents, fault, cut) ==
    IF fault = "create" THEN WriteOutcome("Err", f, FALSE, FALSE)
    ELSE IF fault = "write_all" /\ cut < Len(contents)
    THEN WriteOutcome("Err", Some(SubSeq(contents, 1, cut)), TRUE, FALSE)
    ELSE WriteOutcome("Ok", Some(contents), TRUE, TRUE)

write_if_contents_changed_Always(f, contents, fault, cut) ==
    IF fault = "create_dir_all" THEN WriteOutcome("Err", f, FALSE, FALSE)
    ELSE IF fault = "open" THEN WriteOutcome("Err", f, FALSE, FALSE)
    ELSE IF f.some /\ fault = "read_to_string" THEN WriteOutcome("Err", f, FALSE, FALSE)
    ELSE CreateAndWrite(f, contents, fault, cut)

write_if_contents_changed(f, contents, fault, cut) ==
    IF fault = "create_dir_all" THEN WriteOutcome("Err", f, FALSE, FALSE)
    ELSE IF fault = "open" THEN WriteOutcome("Err", f, FALSE, FALSE)
    ELSE IF f.some
    THEN IF fault = "read_to_string" THEN WriteOutcome("Err", f, FALSE, FALSE)
         ELSE IF f.val = contents THEN WriteOutcome("Ok", f, FALSE, FALSE)
         ELSE CreateAndWrite(f, contents, fault, cut)
    ELSE CreateAndWrite(f, contents, fault, cut)

WriteIfContentsChanged ==
    /\ Len(wlog) < MaxCalls
    /\ \E contents \in WriteTexts, fault \in Faults, cut \in 0..1 :
         LET out == write_if_contents_changed(file, contents, fault, cut) IN
         /\ file' = out.file
         /\ wlog' = Append(wlog, [contents |-> contents, before |-> file,
                                  result |-> out.result, created |-> out.created,
                                  written |-> out.written, after |-> out.file])
    /\ UNCHANGED <<cvars, evars, fvars, dvars, suite, sb, deps, members, spc>>

InitWrite ==
    /\ ComposeIdle /\ ExtractIdle /\ CallIdle /\ DocIdle
    /\ suite = <<>>
    /\ sb = <<>>
    /\ deps = EmptyMap
    /\ members = <<>>
    /\ spc = "idle"
    /\ file \in {None} \cup { Some(t) : t \in WriteTexts }
    /\ wlog = <<>>

NextWrite == WriteIfContentsChanged

SpecWrite == InitWrite /\ [][NextWrite]_vars

(* C36: a call of write_if_contents_changed for a file that exists with    *)
(* the requested contents neither creates nor writes the file and leaves    *)
(* it as it is; after a call that returns Ok the contents of the file are   *)
(* the requested contents; of two calls in a row with the same contents at  *)
(* most one completes a write, and when the first returns Ok the second     *)
(* does not touch the file.                                                 *)
C36_WriteOnlyIfChanged ==
    /\ \A i \in DOMAIN wlog :
         /\ wlog[i].before = Some(wlog[i].contents) =>
                (~wlog[i].created /\ ~wlog[i].written /\ wlog[i].after = wlog[i].before)
         /\ wlog[i].result = "Ok" => wlog[i].after = Some(wlog[i].contents)
         /\ wlog[i].written => wlog[i].created
         /\ ~wlog[i].created => wlog[i].after = wlog[i].before
    /\ \A i \in DOMAIN wlog :
         (i + 1 \in DOMAIN wlog /\ wlog[i + 1].contents = wlog[i].contents) =>
            /\ wlog[i + 1].before = wlog[i].after
            /\ ~(wlog[i].written /\ wlog[i + 1].written)
            /\ wlog[i].result = "Ok" =>
                  (~wlog[i + 1].created /\ wlog[i + 1].after = wlog[i].after)
    /\ wlog # <<>> => file = wlog[Len(wlog)].after

\* the file held "a"; the first call for "ab" has written it, the second
\* call for "ab" has returned Ok without creating the file
C36_Witness ==
    /\ Len(wlog) = 2
    /\ wlog[1].before = Some(<<"a">>)
    /\ wlog[1].contents = <<"a","b">>
    /\ wlog[1].written
    /\ wlog[2].contents = <<"a","b">>
    /\ wlog[2].result = "Ok"
    /\ ~wlog[2].created
    /\ file = Some(<<"a","b">>)

====
